---- MODULE Spec2Model ----
(***************************************************************************)
(* Model of streamui's stream orchestrator (UITransport.processResponse-   *)
(* Stream), its line buffer (SpecStreamBuffer), its line classifier        *)
(* (parseSpecLine) and the immutable patch application (applySpecPatch).   *)
(*                                                                         *)
(* Strings are sequences of one-character tokens.  The tokens stand for    *)
(* the following source text:                                              *)
(*    "\n"  the line terminator          " "   a blank                     *)
(*    "a" "b"  letters of free text                                        *)
(*    "{"   an opening brace             "}"   a closing brace             *)
(*    "r"   "op":"replace","path":"/root","value":"c1"                     *)
(*    "e"   "op":"add","path":"/elements/c1","value":{"type":"Card",...}   *)
(*    "t"   "op":"test","path":"/root","value":"c1"                        *)
(*    "v"   "op":"move","from":"/elements/c1","path":"/elements"           *)
(*    "m"   "message":"hello"                                              *)
(*    "x"   "op":"merge","path":"/root"          (op outside the enum)     *)
(*    "p"   "op":"add","path":5                  (path not a string)       *)
(*    "u"   "op":1,"path":"/root"                (op not a string)         *)
(*    "o"   "op":"add"                           (no path)                 *)
(*    "z"   "op":"","path":"/root"               (empty op)                *)
(*    "n"   null      "0"   0      "s"   "hi"      "l"   [1,2]             *)
(* so that <<"{","r","}">> is the JSON object of a patch and every other   *)
(* arrangement of these tokens is either not JSON or JSON without op/path. *)
(***************************************************************************)
EXTENDS Integers, Sequences, FiniteSets, TLC

VARIABLES
    specBuffer,          \* SpecStreamBuffer.buffer (one per response stream)
    currentSpec,         \* let currentSpec
    segmentIndex,        \* let segmentIndex
    currentSegmentText,  \* let currentSegmentText
    out,                 \* chunks enqueued on the controller, in order
    status,              \* derived stream: "open" | "closed" | "errored" | "cancelled" (by the
                         \* consumer, loop still reading) | "released" (cancelled, loop ended)
    pending,             \* text content (split runs) or body bytes (read loop) still to come
    textContent,         \* the whole text content of a split run, the whole body of a read
    hist,                \* history of the run (observations, not program state)
    heap,                \* the objects of direct applySpecPatch calls
    call,                \* the last direct applySpecPatch call and what it returned
    delivered,           \* chunks of out the consumer of the derived stream has read
    peer,                \* a second response stream of the same UITransport
    lineOut,             \* what direct calls of SpecStreamBuffer have given back
    reader               \* the read loop: let buffer, textDecoder, the reader's lock

vars == <<specBuffer, currentSpec, segmentIndex, currentSegmentText, out,
          status, pending, textContent, hist, heap, call, delivered, peer, lineOut, reader>>

(* The state of direct calls of the library functions and of the read loop. *)
callVars == <<heap, call, lineOut, reader>>

(* The state of a response stream. *)
streamVars == <<specBuffer, currentSpec, segmentIndex, currentSegmentText, out,
                status, pending, textContent, hist>>

----------------------------------------------------------------------------
(* Bounds and input alphabets *)

MaxEvents == 4

(* Direct calls of applySpecPatch in one run. *)
MaxCalls == 3

(* Outer events of each of two response streams processed side by side. *)
MaxPerStream == 2

(* Fragments pushed into a line buffer before its final flush. *)
MaxPushes == 4

(* Calls of flush after the last push. *)
MaxFlushes == 2

(* Tokens of a line handed to the classifier. *)
MaxLineLen == 3

MaxPatches == 3

TextIds == {"t1", "t2"}

Payloads == {"m1", "m2"}

PatchKeys == {"r", "e", "t", "v"}

(* Objects with a truthy op and a truthy path that are no SpecPatch. *)
OffShapeKeys == {"x", "p", "u"}

(* Objects without a truthy op or without a truthy path. *)
OtherKeys == {"m", "o", "z"}

MemberKeys == PatchKeys \cup OffShapeKeys \cup OtherKeys

(* JSON texts that are no object: null, 0, "hi", [1,2]. *)
ValueTokens == {"n", "0", "s", "l"}

(* type SpecPatchOperation *)
SpecPatchOperation == {"add", "remove", "replace", "move", "copy", "test"}

NL == "\n"

Whitespace == {" ", NL}

Absent == "~"

(* Keys of the elements object; "a/b" is written a~1b in a pointer. *)
ElemIds == {"c1", "c2", "a/b", "c1/props/title"}

PropNames == {"title", "size"}

(* Fragments carried by text-delta events of the main specification. *)
Fragments ==
    { <<"a", NL>>,
      <<"b">>,
      <<" ">>,
      <<NL>>,
      <<"{", "r", "}", NL>>,
      <<"{", "e", "}">>,
      <<"{", "t", "}">>,
      <<"{", "t", "}", NL, "a", NL>>,
      <<"{", "v", "}", NL, "{", "r", "}", NL>>,
      <<"{", "e">>,
      <<"}", NL, "b", NL>> }

(* Whole text contents of the split runs. *)
Contents ==
    { <<"a", NL, "{", "r", "}", NL, "b">>,
      <<"{", "r", "}", NL, "{", "e", "}", NL>>,
      <<"{", "t", "}", NL, "a", NL>>,
      <<"a", " ", NL, "{", "e", "}">> }

----------------------------------------------------------------------------
(* String helpers: String.prototype.split("\n") and String.prototype.trim *)

RECURSIVE split(_)
split(s) ==
    IF s = <<>> THEN << <<>> >>
    ELSE LET r == split(Tail(s)) IN
         IF Head(s) = NL THEN << <<>> >> \o r
         ELSE << <<Head(s)>> \o Head(r) >> \o Tail(r)

RECURSIVE trimStart(_)
trimStart(s) ==
    IF s = <<>> THEN s
    ELSE IF Head(s) \in Whitespace THEN trimStart(Tail(s)) ELSE s

RECURSIVE trimEnd(_)
trimEnd(s) ==
    IF s = <<>> THEN s
    ELSE IF s[Len(s)] \in Whitespace THEN trimEnd(SubSeq(s, 1, Len(s) - 1)) ELSE s

trim(s) == trimEnd(trimStart(s))

NonWhitespace(str) == SelectSeq(str, LAMBDA c : c \notin Whitespace)

Last(s) == s[Len(s)]

Front(s) == SubSeq(s, 1, Len(s) - 1)

----------------------------------------------------------------------------
(* LineClassifier: parseSpecLine *)

(* JavaScript values of the members op and path. *)
Undefined == [t |-> "undefined", s |-> ""]

Str(x) == [t |-> "string", s |-> x]

Num(x) == [t |-> "number", s |-> x]

(* The members op and path of the object a member token stands for. *)
Members(key) ==
    CASE key = "r" -> [op |-> Str("replace"), path |-> Str("/root")]
      [] key = "e" -> [op |-> Str("add"), path |-> Str("/elements/c1")]
      [] key = "t" -> [op |-> Str("test"), path |-> Str("/root")]
      [] key = "v" -> [op |-> Str("move"), path |-> Str("/elements")]
      [] key = "x" -> [op |-> Str("merge"), path |-> Str("/root")]
      [] key = "p" -> [op |-> Str("add"), path |-> Num("5")]
      [] key = "u" -> [op |-> Num("1"), path |-> Str("/root")]
      [] key = "o" -> [op |-> Str("add"), path |-> Undefined]
      [] key = "z" -> [op |-> Str(""), path |-> Str("/root")]
      [] OTHER -> [op |-> Undefined, path |-> Undefined]

(* JSON.parse of a trimmed line: ok iff the text is a JSON value, of the  *)
(* given kind; key names the members of a parsed object ("" for the empty *)
(* object), op and path are what reading these members gives.  Whitespace *)
(* between the tokens of a JSON text is insignificant.                    *)
JSONParse(s) ==
    LET w == NonWhitespace(s) IN
    IF Len(w) = 3 /\ w[1] = "{" /\ w[3] = "}" /\ w[2] \in MemberKeys
    THEN [ok |-> TRUE, kind |-> "object", key |-> w[2],
          op |-> Members(w[2]).op, path |-> Members(w[2]).path]
    ELSE IF w = <<"{", "}">>
    THEN [ok |-> TRUE, kind |-> "object", key |-> "", op |-> Undefined, path |-> Undefined]
    ELSE IF Len(w) = 1 /\ w[1] \in ValueTokens
    THEN [ok |-> TRUE, kind |-> IF w[1] = "n" THEN "null" ELSE "value", key |-> "",
          op |-> Undefined, path |-> Undefined]
    ELSE [ok |-> FALSE, kind |-> "", key |-> "", op |-> Undefined, path |-> Undefined]

(* A value in a condition: undefined, "" and 0 are falsy. *)
Truthy(v) == (v.t = "string" /\ v.s # "") \/ (v.t = "number" /\ v.s # "0")

(* parsed.op && parsed.path: both members present and truthy. *)
HasOpAndPath(parsed) == Truthy(parsed.op) /\ Truthy(parsed.path)

(* parsed.op on null: reading a property of null throws a TypeError. *)
ReadThrows(parsed) == parsed.kind = "null"

NullLine == [type |-> "null", data |-> "", content |-> <<>>]

TextLine(content) == [type |-> "text", data |-> "", content |-> content]

(* The try block without the catch: a throw leaves parseSpecLine. *)
classifyUncaught(parsed, content) ==
    IF ~ parsed.ok THEN TextLine(content)
    ELSE IF ReadThrows(parsed) THEN [type |-> "error", data |-> "", content |-> <<>>]
    ELSE IF HasOpAndPath(parsed) THEN [type |-> "patch", data |-> parsed.key, content |-> <<>>]
    ELSE TextLine(content)

(* try { ... } catch { ... } of lines 20-30: whatever JSON.parse or the   *)
(* reading of op and path throws ends in the catch, which returns text.   *)
classify(parsed, content) ==
    IF ~ parsed.ok \/ ReadThrows(parsed) THEN TextLine(content)
    ELSE IF HasOpAndPath(parsed) THEN [type |-> "patch", data |-> parsed.key, content |-> <<>>]
    ELSE TextLine(content)

(* parseSpecLine that gives the trimmed line as the content of a text. *)
parseSpecLineTrimmed(line) ==
    IF trim(line) = <<>> THEN NullLine
    ELSE classify(JSONParse(trim(line)), trim(line))

parseSpecLine(line) ==
    IF trim(line) = <<>> THEN NullLine
    ELSE classify(JSONParse(trim(line)), line)

----------------------------------------------------------------------------
(* LineBuffer: SpecStreamBuffer *)

(* The loop of processChunk without the if (parsed): a blank line comes  *)
(* back as a text line.                                                   *)
RECURSIVE parseLinesKeepBlank(_)
parseLinesKeepBlank(lines) ==
    IF lines = <<>> THEN <<>>
    ELSE <<TextLine(Head(lines))>> \o parseLinesKeepBlank(Tail(lines))

RECURSIVE parseLines(_)
parseLines(lines) ==
    IF lines = <<>> THEN <<>>
    ELSE LET parsed == parseSpecLine(Head(lines)) IN
         (IF parsed.type = "null" THEN <<>> ELSE <<parsed>>) \o parseLines(Tail(lines))

(* processChunk that forgets what an earlier chunk left in the buffer. *)
processChunkNoBuffer(buffer, chunk) ==
    LET lines == split(chunk) IN
    [buffer |-> Last(lines), results |-> parseLines(Front(lines)), lines |-> Front(lines)]

(* processChunk: the new buffer, the parsed complete lines, and lines,    *)
(* the complete lines split off the buffer (blank ones included).         *)
processChunk(buffer, chunk) ==
    LET lines == split(buffer \o chunk) IN
    [buffer |-> Last(lines), results |-> parseLines(Front(lines)), lines |-> Front(lines)]

(* flush that leaves the buffer as it is. *)
flushKeep(buffer) ==
    IF trim(buffer) = <<>> THEN [buffer |-> buffer, result |-> NullLine]
    ELSE [buffer |-> buffer, result |-> parseSpecLine(buffer)]

(* flush: the new buffer and the parsed remainder (NullLine for null). *)
flush(buffer) ==
    IF trim(buffer) = <<>> THEN [buffer |-> buffer, result |-> NullLine]
    ELSE [buffer |-> <<>>, result |-> parseSpecLine(buffer)]

NoLines ==
    [pushes |-> 0, taken |-> <<>>, results |-> <<>>, flushed |-> <<>>, done |-> FALSE,
     flushes |-> 0, before |-> <<>>, last |-> NullLine]

----------------------------------------------------------------------------
(* PatchEngine *)

(* Element objects { type, props: { title, size } }. *)
Card == [type |-> "Card", props |-> [title |-> "Hello", size |-> "m"]]

Button == [type |-> "Button", props |-> [title |-> "Save", size |-> "m"]]

(* What reading a key that is not in the elements object gives. *)
NoElement == [type |-> Absent, props |-> [n \in PropNames |-> Absent]]

(* The state tree: not there, or an object with the array items. *)
NoState == [defined |-> FALSE, items |-> <<>>]

StateOf(items) == [defined |-> TRUE, items |-> items]

EmptySpec == [root |-> "", elements |-> [i \in ElemIds |-> NoElement], state |-> NoState]

(* The patch object a key stands for; paths are the pointer's segments as *)
(* written (not yet decoded).                                             *)
PatchOf(key) ==
    CASE key = "r" -> [op |-> "replace", path |-> <<"root">>, value |-> "c1", from |-> <<>>]
      [] key = "e" -> [op |-> "add", path |-> <<"elements", "c1">>, value |-> Card, from |-> <<>>]
      [] key = "t" -> [op |-> "test", path |-> <<"root">>, value |-> "c1", from |-> <<>>]
      [] key = "v" -> [op |-> "move", path |-> <<"elements">>, value |-> "", from |-> <<"elements", "c1">>]
      [] key = "f" -> [op |-> "replace", path |-> <<"elements", "c2">>, value |-> Button, from |-> <<>>]
      [] key = "q" -> [op |-> "add", path |-> <<"elements", "a~1b">>, value |-> Card, from |-> <<>>]
      [] key = "n" -> [op |-> "replace", path |-> <<"elements", "c1", "props", "title">>,
                       value |-> "New", from |-> <<>>]
      [] key = "d" -> [op |-> "remove", path |-> <<"elements", "c1">>, value |-> "", from |-> <<>>]
      [] key = "w" -> [op |-> "move", path |-> <<"elements", "c2">>, value |-> "",
                       from |-> <<"elements", "c1">>]
      [] key = "s" -> [op |-> "add", path |-> <<"state">>, value |-> StateOf(<<>>), from |-> <<>>]
      [] key = "i" -> [op |-> "add", path |-> <<"state", "items">>, value |-> <<>>, from |-> <<>>]
      [] key = "j" -> [op |-> "add", path |-> <<"state", "items", "0">>, value |-> "A", from |-> <<>>]
      [] key = "k" -> [op |-> "add", path |-> <<"state", "items", "1">>, value |-> "B", from |-> <<>>]

(* Pointer decoding of one segment: ~1 is /, ~0 is ~. *)
unescape(seg) == IF seg = "a~1b" THEN "a/b" ELSE seg

parseJsonPointer(path) == [i \in DOMAIN path |-> unescape(path[i])]

IsRootPath(path) == path = <<"root">>

IsElementPath(path) == Len(path) = 2 /\ path[1] = "elements" /\ path[2] \in ElemIds

IsPropPath(path) ==
    /\ Len(path) = 4
    /\ path[1] = "elements"
    /\ path[2] \in ElemIds
    /\ path[3] = "props"
    /\ path[4] \in PropNames

(* A position of the array state.items: the segment is numeric. *)
Index(seg) == CHOOSE i \in 0..2 : <<"0", "1", "2">>[i + 1] = seg

IsItemPath(path) ==
    /\ Len(path) = 3
    /\ path[1] = "state"
    /\ path[2] = "items"
    /\ path[3] \in {"0", "1", "2"}

(* An array write that puts the value in front whatever the position. *)
insertAtFront(items, i, value) == <<value>> \o items

(* The array with value at position i and what was there moved up. *)
insertAt(items, i, value) ==
    SubSeq(items, 1, i) \o <<value>> \o SubSeq(items, i + 1, Len(items))

getByPath(doc, path) ==
    IF IsRootPath(path) THEN doc.root
    ELSE IF IsElementPath(path) THEN doc.elements[path[2]]
    ELSE IF IsPropPath(path) THEN doc.elements[path[2]].props[path[4]]
    ELSE IF path = <<"state">> THEN doc.state
    ELSE IF path = <<"state", "items">> THEN doc.state.items
    ELSE IF IsItemPath(path) /\ Index(path[3]) < Len(doc.state.items)
    THEN doc.state.items[Index(path[3]) + 1]
    ELSE Absent

removeByPath(doc, path) ==
    IF IsRootPath(path) THEN [doc EXCEPT !.root = ""]
    ELSE IF IsElementPath(path) THEN [doc EXCEPT !.elements[path[2]] = NoElement]
    ELSE IF IsPropPath(path) THEN [doc EXCEPT !.elements[path[2]].props[path[4]] = Absent]
    ELSE IF path = <<"state">> THEN [doc EXCEPT !.state = NoState]
    ELSE doc

(* add/replace that puts an object holding nothing but the addressed      *)
(* field in the place of the element.                                     *)
addByPathWhole(doc, path, value) ==
    IF IsRootPath(path) THEN [doc |-> [doc EXCEPT !.root = value], ok |-> TRUE]
    ELSE IF IsElementPath(path)
    THEN [doc |-> [doc EXCEPT !.elements[path[2]] = value], ok |-> TRUE]
    ELSE IF IsPropPath(path) /\ doc.elements[path[2]] # NoElement
    THEN [doc |-> [doc EXCEPT !.elements[path[2]] = [NoElement EXCEPT !.props[path[4]] = value]],
          ok |-> TRUE]
    ELSE IF path = <<"state">> THEN [doc |-> [doc EXCEPT !.state = value], ok |-> TRUE]
    ELSE [doc |-> doc, ok |-> FALSE]

(* add/replace at a path: fails when the path does not resolve; a field   *)
(* of an element resolves only when the element is there.  Under /state   *)
(* the containers on the way are created (the state object, the array     *)
(* items); a position resolves when it is in the array or right after it. *)
addByPath(doc, path, value) ==
    IF IsRootPath(path) THEN [doc |-> [doc EXCEPT !.root = value], ok |-> TRUE]
    ELSE IF IsElementPath(path)
    THEN [doc |-> [doc EXCEPT !.elements[path[2]] = value], ok |-> TRUE]
    ELSE IF IsPropPath(path) /\ doc.elements[path[2]] # NoElement
    THEN [doc |-> [doc EXCEPT !.elements[path[2]].props[path[4]] = value], ok |-> TRUE]
    ELSE IF path = <<"state">> THEN [doc |-> [doc EXCEPT !.state = value], ok |-> TRUE]
    ELSE IF path = <<"state", "items">>
    THEN [doc |-> [doc EXCEPT !.state = StateOf(value)], ok |-> TRUE]
    ELSE IF IsItemPath(path) /\ Index(path[3]) <= Len(doc.state.items)
    THEN [doc |-> [doc EXCEPT !.state = StateOf(insertAt(doc.state.items, Index(path[3]), value))],
          ok |-> TRUE]
    ELSE [doc |-> doc, ok |-> FALSE]

(* The engine on decoded paths. *)
applyDecoded(doc, op, path, from, value) ==
    CASE op \in {"add", "replace"} -> addByPath(doc, path, value)
      [] op = "remove" ->
            IF IsRootPath(path) \/ IsElementPath(path) \/ IsPropPath(path) \/ path = <<"state">>
            THEN [doc |-> removeByPath(doc, path), ok |-> TRUE]
            ELSE [doc |-> doc, ok |-> FALSE]
      [] op = "test" ->
            [doc |-> doc, ok |-> getByPath(doc, path) = value]
      [] op = "move" ->
            addByPath(removeByPath(doc, from), path, getByPath(doc, from))
      [] op = "copy" ->
            addByPath(doc, path, getByPath(doc, from))

(* The patch engine working on its target in place: the target as it is    *)
(* left, and whether the call returned (ok) or threw.                      *)
applySpecStreamPatch(doc, patch) ==
    applyDecoded(doc, patch.op, parseJsonPointer(patch.path), parseJsonPointer(patch.from),
                 patch.value)

(* What a call of applySpecPatch leaves behind: result is the returned    *)
(* document (when ok, otherwise the call threw), input the caller's       *)
(* document after the call.  r is the engine's outcome on its target.     *)
Outcome(r, input) == [result |-> r.doc, ok |-> r.ok, input |-> input]

(* The engine applied to the caller's own object: target and input are one. *)
InPlace(r) == Outcome(r, r.doc)

(* applySpecPatch without the clone: the engine works on the caller's object. *)
applySpecPatchNoClone(spec, patch) == InPlace(applySpecStreamPatch(spec, patch))

(* applySpecPatch that returns the clone without applying the patch to it. *)
applySpecPatchNoApply(spec, patch) ==
    [result |-> spec, ok |-> applySpecStreamPatch(spec, patch).ok, input |-> spec]

(* applySpecPatch: nextSpec is a JSON clone of spec, the engine works on  *)
(* nextSpec, nextSpec is returned; spec itself is never touched.          *)
applySpecPatch(spec, patch) == Outcome(applySpecStreamPatch(spec, patch), spec)

----------------------------------------------------------------------------
(* buildSpec.  b holds the loop's variables: spec, firstElementKey (first, *)
(* "" for null) and ok, FALSE once applySpecPatch has thrown (the throw    *)
(* leaves buildSpec: there is no result).                                  *)

BuildKeys == PatchKeys \cup {"f", "q", "n", "d", "w", "s", "i", "j", "k"}

PatchesOf(keys) == [i \in DOMAIN keys |-> PatchOf(keys[i])]

(* /^\/elements\/[^/]+$/.exec(patch.path) on the path as written. *)
directElementPath(path) == Len(path) = 2 /\ path[1] = "elements" /\ path[2] # ""

(* firstElementKey that is overwritten by every direct patch. *)
firstElementKeyLast(first, patch) ==
    IF directElementPath(patch.path) /\ patch.op \in {"add", "replace"}
    THEN patch.path[2]
    ELSE first

(* firstElementKey after the if of lines 99-106. *)
firstElementKey(first, patch) ==
    IF directElementPath(patch.path) /\ patch.op \in {"add", "replace"} /\ first = ""
    THEN patch.path[2]
    ELSE first

(* A loop body that applies every patch to the empty document. *)
buildStepNoThread(b, patch) ==
    [first |-> firstElementKey(b.first, patch),
     spec |-> applySpecPatch(EmptySpec, patch).result,
     ok |-> applySpecPatch(EmptySpec, patch).ok]

(* One iteration of for (const patch of patches). *)
buildStep(b, patch) ==
    [first |-> firstElementKey(b.first, patch),
     spec |-> applySpecPatch(b.spec, patch).result,
     ok |-> applySpecPatch(b.spec, patch).ok]

RECURSIVE buildLoop(_, _)
buildLoop(b, patches) ==
    IF patches = <<>> \/ ~ b.ok THEN b
    ELSE buildLoop(buildStep(b, Head(patches)), Tail(patches))

(* if (!spec.root && firstElementKey) spec.root = firstElementKey. *)
inferRoot(b) ==
    IF b.ok /\ b.spec.root = "" /\ b.first # ""
    THEN [b EXCEPT !.spec.root = b.first]
    ELSE b

buildSpec(patches) ==
    inferRoot(buildLoop([first |-> "", spec |-> EmptySpec, ok |-> TRUE], patches))

NoBuild == [done |-> FALSE, patches |-> <<>>, result |-> EmptySpec, ok |-> FALSE]

----------------------------------------------------------------------------
(* applySpecPatch on objects.  A heap holds document objects (docs: the    *)
(* root and state fields and a reference to the elements object) and       *)
(* elements objects (maps); a document is referred to by its index in docs. *)

EmptyHeap == [docs |-> <<>>, maps |-> <<>>]

(* A heap holding the one document spec. *)
HeapOf(spec) ==
    [docs |-> << [root |-> spec.root, elements |-> 1, state |-> spec.state] >>,
     maps |-> << spec.elements >>]

(* The content of the document at ref. *)
deref(h, ref) ==
    [root |-> h.docs[ref].root, elements |-> h.maps[h.docs[ref].elements],
     state |-> h.docs[ref].state]

(* A copy of the top-level object only ({...spec}): elements is shared. *)
shallowCopy(h, ref) ==
    [heap |-> [h EXCEPT !.docs = Append(@, h.docs[ref])], ref |-> Len(h.docs) + 1]

(* JSON.parse(JSON.stringify(spec)): a new document object with a new     *)
(* elements object of the same content.                                   *)
jsonClone(h, ref) ==
    [heap |-> [docs |-> Append(h.docs, [root |-> h.docs[ref].root,
                                        elements |-> Len(h.maps) + 1,
                                        state |-> h.docs[ref].state]),
               maps |-> Append(h.maps, h.maps[h.docs[ref].elements])],
     ref |-> Len(h.docs) + 1]

(* The engine's outcome r stored into its target: root in the document    *)
(* object, the elements in the elements object it refers to.              *)
store(h, ref, r) ==
    [heap |-> [docs |-> [h.docs EXCEPT ![ref].root = r.doc.root,
                                      ![ref].state = r.doc.state],
               maps |-> [h.maps EXCEPT ![h.docs[ref].elements] = r.doc.elements]],
     result |-> ref,
     ok |-> r.ok]

(* applySpecStreamPatch(nextSpec, patch) on the object nextSpec. *)
applyInPlace(h, ref, patch) == store(h, ref, applySpecStreamPatch(deref(h, ref), patch))

applyToClone(c, patch) == applyInPlace(c.heap, c.ref, patch)

(* applySpecPatch(spec, patch): heap after the call, the returned         *)
(* reference (meaningful when ok) and whether the call returned.          *)
applySpecPatchRef(h, spec, patch) == applyToClone(jsonClone(h, spec), patch)

(* The caller's view: the last call, and held, the documents the caller    *)
(* has a reference to (the first one and every one a call returned).      *)
NoCall ==
    [done |-> FALSE, spec |-> 0, key |-> "", before |-> EmptyHeap, result |-> 0, ok |-> FALSE,
     held |-> {1}]

----------------------------------------------------------------------------
(* StreamOrchestrator: processResponseStream.                              *)
(* A state record st holds the closure's variables (buf, spec, idx, text), *)
(* the controller's queue (out), thrown (an exception is propagating to    *)
(* processLine's catch) and h, the history of the run.  The operators that *)
(* model code touch only the program fields; the obs* operators record     *)
(* what happened in h and never change a program field.                    *)

(* A chunk on the queue.  shared says that the data of the chunk is the    *)
(* object currentSpec refers to: data: currentSpec (line 183) enqueues    *)
(* the object itself, not a copy.                                         *)
DataUI(spec) ==
    [type |-> "data-ui", seg |-> 0, text |-> <<>>, doc |-> spec, payload |-> "",
     shared |-> TRUE]

DataUIText(idx, text) ==
    [type |-> "data-ui-text", seg |-> idx, text |-> text, doc |-> EmptySpec, payload |-> "",
     shared |-> FALSE]

Forwarded(chunk) ==
    [type |-> chunk.type, seg |-> 0, text |-> chunk.delta, doc |-> EmptySpec,
     payload |-> chunk.payload, shared |-> FALSE]

TextStartChunk(id) == [type |-> "text-start", id |-> id, delta |-> <<>>, payload |-> ""]

TextDeltaChunk(id, delta) == [type |-> "text-delta", id |-> id, delta |-> delta, payload |-> ""]

TextEndChunk(id) == [type |-> "text-end", id |-> id, delta |-> <<>>, payload |-> ""]

OtherChunk(p) == [type |-> "other", id |-> "", delta |-> <<>>, payload |-> p]

(* controller.enqueue(chunk): throws once the consumer has cancelled the  *)
(* derived stream.                                                        *)
enqueue(st, ev) ==
    IF st.cancelled THEN [st EXCEPT !.thrown = TRUE]
    ELSE [st EXCEPT !.out = Append(@, ev)]

(* emitUIText that enqueues the delta instead of the accumulated text. *)
emitUITextDelta(st, text) ==
    enqueue([st EXCEPT !.text = @ \o text], DataUIText(st.idx, text))

emitUIText(st, text) ==
    LET s1 == [st EXCEPT !.text = @ \o text]
    IN enqueue(s1, DataUIText(s1.idx, s1.text))

(* splitTextSegment without the test of currentSegmentText. *)
splitTextSegmentAlways(st) == [st EXCEPT !.idx = @ + 1, !.text = <<>>]

(* splitTextSegment that never opens a new segment. *)
splitTextSegmentNever(st) == st

splitTextSegment(st) ==
    IF st.text = <<>> THEN st
    ELSE [st EXCEPT !.idx = @ + 1, !.text = <<>>]

(* History: one tag per chunk the step put on the queue. *)
RECURSIVE Repeat(_, _)
Repeat(x, n) == IF n <= 0 THEN <<>> ELSE <<x>> \o Repeat(x, n - 1)

obsTags(before, after, tag) ==
    [after EXCEPT !.h.tags = @ \o Repeat(tag, Len(after.out) - Len(before.out))]

Tag(st, content, termd) ==
    [src |-> st.h.nEvents + 1, bc |-> st.h.bc, ends |-> st.h.nEnds,
     content |-> content, termd |-> termd]

(* data: currentSpec enqueues the object itself: the chunk on the queue   *)
(* whose data is the object of currentSpec carries whatever a call leaves *)
(* in the caller's document (input).  It is the latest data-ui chunk, as  *)
(* long as the latest assignment to currentSpec was enqueued; 0 when no   *)
(* chunk of the queue holds the object (before the first patch, and once  *)
(* enqueue has thrown after an assignment: lines 177-184).                *)
RECURSIVE LastDataUI(_)
LastDataUI(q) ==
    IF q = <<>> THEN 0
    ELSE IF q[Len(q)].shared THEN Len(q)
    ELSE LastDataUI(SubSeq(q, 1, Len(q) - 1))

aliased(st, i, input) == IF i = 0 THEN st ELSE [st EXCEPT !.out[i].doc = input]

writeThrough(st, input) == aliased(st, LastDataUI(st.out), input)

(* currentSpec = applySpecPatch(...); controller.enqueue(data-ui): r is   *)
(* what the call left behind.  The assignment makes currentSpec refer to  *)
(* the returned object, which no chunk of the queue holds until it is     *)
(* enqueued.  When the call threw, nothing is assigned or enqueued and    *)
(* the exception propagates.                                              *)
assignAndEnqueue(st, r) ==
    IF r.ok
    THEN enqueue([writeThrough(st, r.input)
                     EXCEPT !.spec = r.result,
                            !.out = [j \in DOMAIN @ |-> [@[j] EXCEPT !.shared = FALSE]]],
                 DataUI(r.result))
    ELSE [writeThrough(st, r.input) EXCEPT !.spec = r.input, !.thrown = TRUE]

applyPatchItem(st, key) == assignAndEnqueue(st, applySpecPatch(st.spec, PatchOf(key)))

(* The patch item of a line: lines 176-185 and 197-206. *)
patchItem(st, key) == applyPatchItem(splitTextSegment(st), key)

recordPatchItem(st, key, after) ==
    IF after.thrown
    THEN [after EXCEPT !.h.bc = @ + 1,
                       !.h.failures = @ + 1,
                       !.h.failedNow = TRUE,
                       !.h.failDoc = st.spec,
                       !.h.failKey = key,
                       !.h.failOut = Len(st.out)]
    ELSE [after EXCEPT !.h.bc = @ + 1,
                       !.h.applied = Append(@, key),
                       !.h.emitted = Append(@, after.spec)]

obsPatchItem(st, key) ==
    recordPatchItem(st, key, obsTags(st, patchItem(st, key), Tag(st, <<>>, FALSE)))

obsTextItem(st, content, termd) ==
    obsTags(st, emitUIText(st, content \o (IF termd THEN <<NL>> ELSE <<>>)),
            Tag(st, content, termd))

PatchCount(items) == Len(SelectSeq(items, LAMBDA it : it.type = "patch"))

(* Items the loop never reaches because an earlier one threw. *)
obsDropped(st, items) ==
    [st EXCEPT !.h.dropped = @ + Len(items), !.h.bc = @ + PatchCount(items)]

(* for (const item of parsed) { ... }: lines 174-190. *)
RECURSIVE deltaItems(_, _)
deltaItems(st, items) ==
    IF items = <<>> THEN st
    ELSE IF st.thrown THEN obsDropped(st, items)
    ELSE LET item == Head(items)
             s1 == IF item.type = "patch"
                   THEN obsPatchItem(st, item.data)
                   ELSE obsTextItem(st, item.content, TRUE)
         IN deltaItems(s1, Tail(items))

(* History of the shared line buffer: whose fragments it holds. *)
obsBuffer(st, chunk) ==
    LET parts == split(chunk.delta)
        head == Head(parts)
        mixed == st.h.bufferIds \cup (IF head = <<>> THEN {} ELSE {chunk.id})
    IN IF Len(parts) > 1
       THEN [st EXCEPT !.h.joined = @ \/ Cardinality(mixed) > 1,
                       !.h.bufferIds = IF Last(parts) = <<>> THEN {} ELSE {chunk.id}]
       ELSE [st EXCEPT !.h.bufferIds = mixed]

obsFlush(st, chunk, f) ==
    IF f.result.type = "null" THEN st
    ELSE [st EXCEPT !.h.foreignFlush = @ \/ (st.h.bufferIds \ {chunk.id} # {}),
                    !.h.joined = @ \/ Cardinality(st.h.bufferIds) > 1,
                    !.h.bufferIds = {}]

(* History: the state found by a text-delta whose complete lines are all *)
(* empty or whitespace-only.                                              *)
obsBlank(st, pc) ==
    IF pc.lines # <<>> /\ \A i \in DOMAIN pc.lines : trim(pc.lines[i]) = <<>>
    THEN [st EXCEPT !.h.blank = [now |-> TRUE, buf |-> st.buf, out |-> Len(st.out),
                                 text |-> st.text, idx |-> st.idx, spec |-> st.spec]]
    ELSE st

(* const parsed = specBuffer.processChunk(chunk.delta); for (...) {...} *)
parsedItems(st, pc) == deltaItems([obsBlank(st, pc) EXCEPT !.buf = pc.buffer], pc.results)

(* chunk.type === "text-delta": lines 171-191. *)
textDelta(st, chunk) ==
    parsedItems(obsBuffer(st, chunk), processChunk(st.buf, chunk.delta))

(* The remainder emitted as a line, with a terminator appended. *)
remainingItemTerminated(st, remaining) ==
    IF remaining.type = "patch" THEN obsPatchItem(st, remaining.data)
    ELSE IF remaining.type = "text" THEN obsTextItem(st, remaining.content, TRUE)
    ELSE st

(* if (remaining) { patch ... } else { emitUIText(remaining.content) }: 195-210. *)
remainingItem(st, remaining) ==
    IF remaining.type = "patch" THEN obsPatchItem(st, remaining.data)
    ELSE IF remaining.type = "text" THEN obsTextItem(st, remaining.content, FALSE)
    ELSE st

(* History: the state a text-end found. *)
NoEnd == [now |-> FALSE, buf |-> <<>>, out |-> 0, text |-> <<>>, idx |-> 0, spec |-> EmptySpec]

obsEnd(st) ==
    [st EXCEPT !.h.end = [now |-> TRUE, buf |-> st.buf, out |-> Len(st.out),
                          text |-> st.text, idx |-> st.idx, spec |-> st.spec]]

(* const remaining = specBuffer.flush(): line 194. *)
flushed(st, chunk, f) ==
    remainingItem([obsFlush(st, chunk, f) EXCEPT !.buf = f.buffer], f.result)

(* text-end without the splitTextSegment() of line 212. *)
closeSegmentNoSplit(st) == [st EXCEPT !.h.bc = @ + 1, !.h.nEnds = @ + 1]

(* The splitTextSegment() of line 212, not reached when the patch threw. *)
closeSegment(st) ==
    IF st.thrown THEN [st EXCEPT !.h.bc = @ + 1, !.h.nEnds = @ + 1]
    ELSE [splitTextSegment(st) EXCEPT !.h.bc = @ + 1, !.h.nEnds = @ + 1]

(* chunk.type === "text-end": lines 193-213. *)
textEnd(st, chunk) == closeSegment(flushed(obsEnd(st), chunk, flush(st.buf)))

(* Pass-through that loses the chunk. *)
passThroughDrop(st, chunk) == st

(* Pass-through of every other chunk type: lines 218-221. *)
passThrough(st, chunk) == enqueue(st, Forwarded(chunk))

obsPassThrough(st, chunk) ==
    [obsTags(st, passThrough(st, chunk), Tag(st, <<>>, FALSE))
        EXCEPT !.h.fwdIn = Append(@, [payload |-> chunk.payload, src |-> st.h.nEvents + 1])]

(* text-start: return, lines 215-217.  History: the state it found. *)
textStart(st) ==
    [st EXCEPT !.h.start = [now |-> TRUE, buf |-> st.buf, out |-> Len(st.out),
                            text |-> st.text, idx |-> st.idx, spec |-> st.spec]]

(* processLine without the text-start branch: the chunk falls through to  *)
(* the pass-through.                                                      *)
dispatchNoSuppress(st, chunk) ==
    IF chunk.type = "text-delta" THEN textDelta(st, chunk)
    ELSE IF chunk.type = "text-end" THEN textEnd(st, chunk)
    ELSE obsPassThrough(st, chunk)

(* processLine for a line that parses to the chunk: lines 164-224.  The   *)
(* catch swallows whatever the branch threw, so thrown ends FALSE.        *)
dispatch(st, chunk) ==
    IF chunk.type = "text-delta" THEN textDelta(st, chunk)
    ELSE IF chunk.type = "text-end" THEN textEnd(st, chunk)
    ELSE IF chunk.type = "text-start" THEN textStart(st)
    ELSE obsPassThrough(st, chunk)

processLine(st, chunk) ==
    [dispatch([st EXCEPT !.thrown = FALSE, !.h.failedNow = FALSE, !.h.end = NoEnd,
                         !.h.blank = NoEnd, !.h.start = NoEnd], chunk)
        EXCEPT !.thrown = FALSE, !.h.nEvents = @ + 1]

----------------------------------------------------------------------------
(* The state machine *)

Hist0 ==
    [tags |-> <<>>, applied |-> <<>>, bc |-> 0, nEvents |-> 0,
     failures |-> 0, failedNow |-> FALSE, failDoc |-> EmptySpec, failKey |-> "", failOut |-> 0,
     dropped |-> 0, bufferIds |-> {}, joined |-> FALSE, foreignFlush |-> FALSE,
     fwdIn |-> <<>>, nEnds |-> 0, emitted |-> <<>>, end |-> NoEnd,
     blank |-> NoEnd, start |-> NoEnd]

State0 ==
    [buf |-> <<>>, spec |-> EmptySpec, idx |-> 0, text |-> <<>>, out |-> <<>>,
     thrown |-> FALSE, cancelled |-> FALSE, h |-> Hist0]

(* The read loop before its first read: buffer is the outer line buffer,  *)
(* held the lead byte the decoder keeps, failure the error read() was     *)
(* rejected with, error the error the derived stream was put into;        *)
(* cancelled is the state of the derived stream as the controller finds   *)
(* it: no longer readable once the consumer has cancelled.  The rest is   *)
(* history (midLine and midChar say that a value has ended within a line  *)
(* and between the two bytes of a character; lines counts the calls of    *)
(* processLine, closes the calls of close that closed the stream; skip is *)
(* the state found by a read whose lines were all skipped).               *)
NoReader ==
    [buffer |-> <<>>, held |-> FALSE, released |-> FALSE, cancelled |-> FALSE,
     failure |-> "", error |-> "", midLine |-> FALSE, midChar |-> FALSE,
     lines |-> 0, closes |-> 0, skip |-> NoEnd]

(* The second stream: its closure state, and for both streams the chunks *)
(* handled so far and the order in which the two were served.            *)
NoPeer == [st |-> State0, inA |-> <<>>, inB |-> <<>>, order |-> <<>>]

Cur ==
    [buf |-> specBuffer, spec |-> currentSpec, idx |-> segmentIndex,
     text |-> currentSegmentText, out |-> out, thrown |-> FALSE,
     cancelled |-> status = "cancelled", h |-> hist]

(* One call of processLine from the read loop (lines 241-243, 246-248).  *)
(* The loop has no part that looks at the derived stream: it goes on      *)
(* after the consumer has cancelled.                                      *)
Handle(chunk) ==
    /\ status \in {"open", "cancelled"}
    /\ \E s \in {processLine(Cur, chunk)} :
        /\ specBuffer' = s.buf
        /\ currentSpec' = s.spec
        /\ segmentIndex' = s.idx
        /\ currentSegmentText' = s.text
        /\ out' = s.out
        /\ hist' = s.h
    /\ UNCHANGED <<status, heap, call, delivered, peer, lineOut, reader>>

Init ==
    /\ specBuffer = <<>>
    /\ currentSpec = EmptySpec
    /\ segmentIndex = 0
    /\ currentSegmentText = <<>>
    /\ out = <<>>
    /\ status = "open"
    /\ pending = <<>>
    /\ textContent = <<>>
    /\ hist = Hist0
    /\ heap = EmptyHeap
    /\ call = NoCall
    /\ delivered = 0
    /\ peer = NoPeer
    /\ lineOut = NoLines
    /\ reader = NoReader

TextStart ==
    /\ hist.nEvents < MaxEvents
    /\ \E id \in TextIds : Handle(TextStartChunk(id))
    /\ UNCHANGED <<pending, textContent>>

TextDelta ==
    /\ hist.nEvents < MaxEvents
    /\ \E id \in TextIds, frag \in Fragments : Handle(TextDeltaChunk(id, frag))
    /\ UNCHANGED <<pending, textContent>>

TextEnd ==
    /\ hist.nEvents < MaxEvents
    /\ \E id \in TextIds : Handle(TextEndChunk(id))
    /\ UNCHANGED <<pending, textContent>>

PassThrough ==
    /\ hist.nEvents < MaxEvents
    /\ \E p \in Payloads : Handle(OtherChunk(p))
    /\ UNCHANGED <<pending, textContent>>

(* reader.read() returns done: controller.close() (lines 230-250).  On a  *)
(* cancelled stream close() throws, error() does nothing, and the reader  *)
(* lock is released (lines 251-255).                                      *)
StreamEnd ==
    /\ status \in {"open", "cancelled"}
    /\ status' = IF status = "open" THEN "closed" ELSE "released"
    /\ UNCHANGED <<specBuffer, currentSpec, segmentIndex, currentSegmentText,
                   out, pending, textContent, hist, heap, call, delivered, peer, lineOut, reader>>

(* reader.read() rejects: controller.error(error) (lines 251-252). *)
ReadFail ==
    /\ status \in {"open", "cancelled"}
    /\ status' = IF status = "open" THEN "errored" ELSE "released"
    /\ UNCHANGED <<specBuffer, currentSpec, segmentIndex, currentSegmentText,
                   out, pending, textContent, hist, heap, call, delivered, peer, lineOut, reader>>

Next == TextStart \/ TextDelta \/ TextEnd \/ PassThrough \/ StreamEnd \/ ReadFail

Spec == Init /\ [][Next]_vars

(* Split runs: one text content, delivered under one id in fragments cut  *)
(* at arbitrary places and terminated by text-end.                        *)
SplitInit ==
    /\ specBuffer = <<>>
    /\ currentSpec = EmptySpec
    /\ segmentIndex = 0
    /\ currentSegmentText = <<>>
    /\ out = <<>>
    /\ status = "open"
    /\ textContent \in Contents
    /\ pending = textContent
    /\ hist = Hist0
    /\ heap = EmptyHeap
    /\ call = NoCall
    /\ delivered = 0
    /\ peer = NoPeer
    /\ lineOut = NoLines
    /\ reader = NoReader

SplitDelta ==
    /\ pending # <<>>
    /\ \E n \in 1..Len(pending) :
        /\ Handle(TextDeltaChunk("t1", SubSeq(pending, 1, n)))
        /\ pending' = SubSeq(pending, n + 1, Len(pending))
    /\ UNCHANGED textContent

SplitEnd ==
    /\ pending = <<>>
    /\ hist.nEnds = 0
    /\ Handle(TextEndChunk("t1"))
    /\ UNCHANGED <<pending, textContent>>

SplitNext == SplitDelta \/ SplitEnd \/ StreamEnd

SpecSplit == SplitInit /\ [][SplitNext]_vars

(* Direct calls of applySpecPatch: a caller holds a document and calls    *)
(* applySpecPatch on it or on a document an earlier call returned.        *)
Docs ==
    [root : {"", "c1"},
     elements : {EmptySpec.elements,
                 [EmptySpec.elements EXCEPT !["c1"] = Card],
                 [EmptySpec.elements EXCEPT !["c1"] = Card, !["c2"] = Button]},
     state : {NoState, StateOf(<<>>)}]

ApplyKeys == PatchKeys \cup {"n", "f", "s"}

StreamIdle ==
    /\ specBuffer = <<>>
    /\ currentSpec = EmptySpec
    /\ segmentIndex = 0
    /\ currentSegmentText = <<>>
    /\ out = <<>>
    /\ status = "open"
    /\ pending = <<>>
    /\ textContent = <<>>
    /\ hist = Hist0

ApplyInit ==
    /\ StreamIdle
    /\ \E spec \in Docs : heap = HeapOf(spec)
    /\ call = NoCall
    /\ delivered = 0
    /\ peer = NoPeer
    /\ lineOut = NoLines
    /\ reader = NoReader

Returned(r, spec, key, before) ==
    /\ heap' = r.heap
    /\ call' = [done |-> TRUE, spec |-> spec, key |-> key, before |-> before,
                result |-> r.result, ok |-> r.ok,
                held |-> call.held \cup (IF r.ok THEN {r.result} ELSE {})]

(* A document the caller holds: the first one or one that any earlier     *)
(* call returned (const result = applySpecPatch(spec, ...) keeps spec and *)
(* result in scope; the clone of a call that threw is held by no one).    *)
Held(ref) == ref \in call.held

ApplyPatch ==
    /\ Len(heap.docs) <= MaxCalls
    /\ \E spec \in DOMAIN heap.docs, key \in ApplyKeys :
        /\ Held(spec)
        /\ Returned(applySpecPatchRef(heap, spec, PatchOf(key)), spec, key, heap)
    /\ UNCHANGED <<streamVars, delivered, peer, lineOut, reader>>

SpecApply == ApplyInit /\ [][ApplyPatch]_vars

(* Direct calls of buildSpec: a caller puts a patch array together and    *)
(* calls buildSpec on it once.                                            *)
BuildInit ==
    /\ StreamIdle
    /\ heap = EmptyHeap
    /\ call = NoBuild
    /\ delivered = 0
    /\ peer = NoPeer
    /\ lineOut = NoLines
    /\ reader = NoReader

ChoosePatch ==
    /\ ~ call.done
    /\ Len(call.patches) < MaxPatches
    /\ \E key \in BuildKeys : call' = [call EXCEPT !.patches = Append(@, key)]
    /\ UNCHANGED <<streamVars, heap, delivered, peer, lineOut, reader>>

Build ==
    /\ ~ call.done
    /\ \E b \in {buildSpec(PatchesOf(call.patches))} :
        call' = [call EXCEPT !.done = TRUE, !.result = b.spec, !.ok = b.ok]
    /\ UNCHANGED <<streamVars, heap, delivered, peer, lineOut, reader>>

SpecBuild == BuildInit /\ [][ChoosePatch \/ Build]_vars

(* The derived stream with its consumer: the consumer reads the chunks    *)
(* on the queue one by one and may cancel the stream.                     *)
StreamChunks ==
    { TextDeltaChunk("t1", <<"a", NL>>),
      TextDeltaChunk("t1", <<"{", "r", "}", NL>>),
      TextDeltaChunk("t1", <<"{", "e">>),
      TextDeltaChunk("t1", <<"}", NL, "b", NL>>),
      TextEndChunk("t1"),
      OtherChunk("m1") }

OuterEvent ==
    /\ hist.nEvents < MaxEvents
    /\ \E chunk \in StreamChunks : Handle(chunk)
    /\ UNCHANGED <<pending, textContent>>

(* reader.read() of the consumer takes the next chunk off the queue. *)
ConsumerRead ==
    /\ status \in {"open", "closed"}
    /\ delivered < Len(out)
    /\ delivered' = delivered + 1
    /\ UNCHANGED <<streamVars, callVars, peer>>

(* cancel() of the consumer: the underlying source has no cancel          *)
(* callback, so nothing but the state of the derived stream changes.      *)
(* After controller.close() the stream stays readable while chunks are    *)
(* queued: a cancel() then empties the queue, the chunks not yet read are *)
(* never delivered, and the loop has ended already.                       *)
ConsumerCancel ==
    /\ status = "open" \/ (status = "closed" /\ delivered < Len(out))
    /\ status' = IF status = "open" THEN "cancelled" ELSE "released"
    /\ UNCHANGED <<specBuffer, currentSpec, segmentIndex, currentSegmentText,
                   out, pending, textContent, hist, heap, call, delivered, peer, lineOut, reader>>

ConsumerNext == OuterEvent \/ StreamEnd \/ ConsumerRead \/ ConsumerCancel

SpecConsumer == Init /\ [][ConsumerNext]_vars

(* Direct use of a SpecStreamBuffer: fragments are pushed with            *)
(* processChunk, then flush is called once.  textContent is everything    *)
(* pushed so far.                                                         *)
Pushed(pc, frag) ==
    /\ specBuffer' = pc.buffer
    /\ lineOut' = [lineOut EXCEPT !.pushes = @ + 1,
                                  !.taken = @ \o pc.lines,
                                  !.results = @ \o pc.results]
    /\ textContent' = textContent \o frag

Push ==
    /\ ~ lineOut.done
    /\ lineOut.pushes < MaxPushes
    /\ \E frag \in Fragments : Pushed(processChunk(specBuffer, frag), frag)
    /\ UNCHANGED <<currentSpec, segmentIndex, currentSegmentText, out, status,
                   pending, hist, heap, call, delivered, peer, reader>>

(* flushed is what the first flush gave back; before and last are the    *)
(* buffer the latest flush found and what it gave back.                   *)
Flushed(f) ==
    /\ specBuffer' = f.buffer
    /\ lineOut' = [lineOut EXCEPT !.done = TRUE,
                                  !.flushed = IF lineOut.done THEN @
                                              ELSE IF f.result.type = "null" THEN <<>>
                                              ELSE <<f.result>>,
                                  !.flushes = @ + 1,
                                  !.before = specBuffer,
                                  !.last = f.result]

Flush ==
    /\ lineOut.flushes < MaxFlushes
    /\ Flushed(flush(specBuffer))
    /\ UNCHANGED <<currentSpec, segmentIndex, currentSegmentText, out, status,
                   pending, textContent, hist, heap, call, delivered, peer, reader>>

BufferNext == Push \/ Flush

SpecBuffer == Init /\ [][BufferNext]_vars

(* Classification of single lines: a line reaches parseSpecLine either   *)
(* as a complete line of processChunk or as the remainder flush finds.    *)
LineTokens == {" ", "a", "{", "}", "r", "m", "o", "z"} \cup OffShapeKeys \cup ValueTokens

Lines == UNION {[1..n -> LineTokens] : n \in 0..MaxLineLen}

PushLine ==
    /\ lineOut.pushes = 0
    /\ \E line \in Lines, end \in {<<NL>>, <<>>} :
        Pushed(processChunk(specBuffer, line \o end), line \o end)
    /\ UNCHANGED <<currentSpec, segmentIndex, currentSegmentText, out, status,
                   pending, hist, heap, call, delivered, peer, reader>>

SpecClassify == Init /\ [][PushLine \/ Flush]_vars

(* Two response streams of one UITransport, their read loops interleaved  *)
(* in any order.  Stream A lives in the variables of the module, stream B *)
(* in peer.st.                                                            *)

(* The variables of a stream taken from a store shared by the transport. *)
closureSharedBuffer(own, other) == [own EXCEPT !.buf = other.buf]

(* The variables a processLine call works on are the ones its own         *)
(* processResponseStream call declared (lines 125-128), whatever another  *)
(* call holds.                                                            *)
closure(own, other) == own

StreamA ==
    /\ hist.nEvents < MaxPerStream
    /\ \E chunk \in StreamChunks :
        /\ \E s \in {processLine(closure(Cur, peer.st), chunk)} :
            /\ specBuffer' = s.buf
            /\ currentSpec' = s.spec
            /\ segmentIndex' = s.idx
            /\ currentSegmentText' = s.text
            /\ out' = s.out
            /\ hist' = s.h
        /\ peer' = [peer EXCEPT !.inA = Append(@, chunk), !.order = Append(@, "A")]
    /\ UNCHANGED <<status, pending, textContent, heap, call, delivered, lineOut, reader>>

StreamB ==
    /\ peer.st.h.nEvents < MaxPerStream
    /\ \E chunk \in StreamChunks :
        peer' = [peer EXCEPT !.st = processLine(closure(peer.st, Cur), chunk),
                             !.inB = Append(@, chunk),
                             !.order = Append(@, "B")]
    /\ UNCHANGED <<streamVars, callVars, delivered>>

TwoNext == StreamA \/ StreamB

SpecTwo == Init /\ [][TwoNext]_vars

----------------------------------------------------------------------------
(* Helpers of the properties *)

IsDataUI(e) == e.type = "data-ui"

IsDataUIText(e) == e.type = "data-ui-text"

IsForwarded(e) == ~ IsDataUI(e) /\ ~ IsDataUIText(e)

Tagged == DOMAIN out \cap DOMAIN hist.tags

TextIdx == {i \in Tagged : IsDataUIText(out[i])}

(* The document that results from applying patches one by one to doc. *)
RECURSIVE FoldPatches(_, _)
FoldPatches(doc, keys) ==
    IF keys = <<>> THEN doc
    ELSE FoldPatches(applySpecStreamPatch(doc, PatchOf(Head(keys))).doc, Tail(keys))

(* The text of the lines of out[i]'s segment seen up to out[i]; allTerm   *)
(* puts a terminator after every line, otherwise only after the lines    *)
(* that had one in the input.                                            *)
RECURSIVE LinesText(_, _, _)
LinesText(i, j, allTerm) ==
    IF j > i THEN <<>>
    ELSE (IF j \in TextIdx /\ out[j].seg = out[i].seg
          THEN hist.tags[j].content \o
               (IF allTerm \/ hist.tags[j].termd THEN <<NL>> ELSE <<>>)
          ELSE <<>>) \o LinesText(i, j + 1, allTerm)

IsStrictPrefix(s, t) == Len(s) < Len(t) /\ s = SubSeq(t, 1, Len(s))

(* The derived events of the whole content delivered as one fragment. *)
WholeRun(c) ==
    processLine(processLine(State0, TextDeltaChunk("t1", c)), TextEndChunk("t1"))

Surfaced == status = "errored" \/ \E i \in DOMAIN out : out[i].type = "error"

(* The closure state of a stream that starts in st and handles chunks. *)
RECURSIVE RunOf(_, _)
RunOf(st, chunks) ==
    IF chunks = <<>> THEN st
    ELSE RunOf(processLine(st, Head(chunks)), Tail(chunks))

----------------------------------------------------------------------------
(* Properties *)

(* C1: every successfully applied patch line produces exactly one data-ui *)
(* event, and the k-th data-ui event carries the document obtained by     *)
(* applying the first k successfully applied patches, in stream order, to *)
(* the empty document.                                                    *)
C1_DataUIIsFoldOfApplied ==
    LET ev == SelectSeq(out, IsDataUI) IN
    /\ Len(ev) = Len(hist.applied)
    /\ \A k \in 1..Len(ev) :
        k <= Len(hist.applied) =>
            ev[k].doc = FoldPatches(EmptySpec, SubSeq(hist.applied, 1, k))

(* Two patches applied around a failed one; the last snapshot has both effects. *)
C1_Witness ==
    /\ Len(hist.applied) = 2
    /\ hist.failures >= 1
    /\ Len(SelectSeq(out, IsDataUI)) = 2
    /\ currentSpec = [EmptySpec EXCEPT !.root = "c1", !.elements["c1"] = Card]

(* C2: two text lines are emitted under the same segment index if and     *)
(* only if no patch line and no text-end occurs between them.             *)
C2_SameSegmentIffNoBoundary ==
    \A i, j \in TextIdx :
        i < j => ((out[i].seg = out[j].seg) <=> (hist.tags[i].bc = hist.tags[j].bc))

(* Two lines in one segment, and a line after a patch boundary in the next. *)
C2_Witness ==
    \E i, j, k \in TextIdx :
        /\ i < j /\ j < k
        /\ out[i].seg = out[j].seg
        /\ out[k].seg = out[j].seg + 1
        /\ \E p \in j..k : IsDataUI(out[p])

(* C3: for a fixed text content delivered under one id and terminated by  *)
(* text-end, the data-ui and data-ui-text events are the same for every   *)
(* way of splitting the content into text-delta fragments.                *)
C3_SplitIndependent ==
    (pending = <<>> /\ hist.nEnds = 1) => out = WholeRun(textContent).out

(* C4 as stated: every data-ui-text carries the concatenation of the      *)
(* content of every text line of its segment seen so far, each followed   *)
(* by one line terminator.                                                *)
C4_EveryLineTerminated ==
    \A i \in TextIdx : out[i].text = LinesText(i, 1, TRUE)

(* C4 amended: every data-ui-text carries the concatenation of the        *)
(* content of every text line of its segment seen so far, each complete   *)
(* line followed by one line terminator and the remainder flushed at      *)
(* text-end followed by none; each successive event of a segment strictly *)
(* extends the previous one's text.                                       *)
C4_AccumulatedText ==
    /\ \A i \in TextIdx : out[i].text = LinesText(i, 1, FALSE)
    /\ \A i, j \in TextIdx :
        (i < j /\ out[i].seg = out[j].seg) => IsStrictPrefix(out[i].text, out[j].text)

(* A segment with a complete line followed by a flushed remainder. *)
C4_Witness ==
    \E i, j \in TextIdx :
        /\ i < j
        /\ out[i].seg = out[j].seg
        /\ hist.tags[i].termd
        /\ ~ hist.tags[j].termd
        /\ Len(out[j].text) >= 3

(* C5: every outer event that is not text-start, text-delta or text-end   *)
(* is emitted exactly once and unchanged, and the order of forwarded      *)
(* events among themselves and with respect to the events derived from    *)
(* earlier and later outer events is the order of the outer sequence.     *)
C5_PassThroughInOrder ==
    LET fwd == {i \in DOMAIN out : IsForwarded(out[i])}
        rank(i) == Cardinality({j \in fwd : j <= i})
    IN /\ Cardinality(fwd) = Len(hist.fwdIn)
       /\ \A i \in fwd :
            /\ rank(i) \in DOMAIN hist.fwdIn
            /\ i \in DOMAIN hist.tags
            /\ out[i] = Forwarded(OtherChunk(hist.fwdIn[rank(i)].payload))
            /\ hist.tags[i].src = hist.fwdIn[rank(i)].src
       /\ \A i, j \in Tagged : i < j => hist.tags[i].src <= hist.tags[j].src

(* Two different forwarded events with derived events before, between and after. *)
C5_Witness ==
    \E a, b, c, d \in DOMAIN out :
        /\ a < b /\ b < c /\ c < d
        /\ IsDataUIText(out[a])
        /\ IsForwarded(out[b]) /\ out[b].payload = "m2"
        /\ IsDataUI(out[c])
        /\ IsForwarded(out[d]) /\ out[d].payload = "m1"

(* C6: if the outer stream ends while the line buffer holds non-blank     *)
(* content never followed by a text-end, that content is flushed before   *)
(* the derived stream is completed.                                       *)
C6_FlushedBeforeClose ==
    status = "closed" => trim(specBuffer) = <<>>

(* C7: a fragment of one id is never joined with a fragment of another id *)
(* into one line, and a text-end for one id flushes only that id's        *)
(* buffered content.                                                      *)
C7_BufferKeyedById ==
    ~ hist.joined /\ ~ hist.foreignFlush

(* C8: when applying a patch line fails, the current document is exactly  *)
(* the document before that line, no data-ui event is emitted for it, and *)
(* the next successful patch is applied to that unchanged document.       *)
C8_FailedPatchIsAtomic ==
    hist.failedNow =>
        /\ currentSpec = hist.failDoc
        /\ Len(out) = hist.failOut
        /\ currentSpec = FoldPatches(EmptySpec, hist.applied)
        /\ Len(SelectSeq(out, IsDataUI)) = Len(hist.applied)

(* A move whose target does not resolve failed after its source existed. *)
C8_Witness ==
    /\ hist.failedNow
    /\ hist.failKey = "v"
    /\ currentSpec.elements["c1"] = Card

(* C9: when applying a patch fails, the failure is surfaced to the caller *)
(* of the derived stream.                                                 *)
C9_FailureSurfaced ==
    hist.failures > 0 => Surfaced

(* C10: when one patch line of a fragment fails to apply, every other     *)
(* complete line of that fragment is still classified and produces its    *)
(* event.                                                                 *)
C10_FailureIsLocal ==
    hist.dropped = 0

(* C11: a document emitted in a data-ui event is never changed afterwards: *)
(* after any later patch, text line, flush or failure, every emitted       *)
(* document equals what it was when it was emitted.                        *)
C11_EmittedSnapshotsFrozen ==
    LET ev == SelectSeq(out, IsDataUI) IN
    /\ Len(ev) = Len(hist.emitted)
    /\ \A k \in 1..Len(ev) :
        k <= Len(hist.emitted) => ev[k].doc = hist.emitted[k]

(* Two different snapshots were emitted, the second by a flush, and a     *)
(* move that fails half way was processed after them.                     *)
C11_Witness ==
    /\ Len(hist.emitted) = 2
    /\ hist.emitted[1] # hist.emitted[2]
    /\ hist.failedNow
    /\ hist.failKey = "v"
    /\ hist.nEnds >= 1

(* C12: applySpecPatch never changes a field reachable from its input      *)
(* document (the document object and its elements object), and when it    *)
(* returns, the result is another document object with another elements   *)
(* object, also for a patch with no observable effect; result and input   *)
(* hold what the value-level applySpecPatch says.                         *)
C12_InputUntouchedResultDistinct ==
    call.done =>
        /\ heap.docs[call.spec] = call.before.docs[call.spec]
        /\ heap.maps[heap.docs[call.spec].elements]
                = call.before.maps[call.before.docs[call.spec].elements]
        /\ deref(heap, call.spec)
                = applySpecPatch(deref(call.before, call.spec), PatchOf(call.key)).input
        /\ call.ok =>
            /\ call.result # call.spec
            /\ heap.docs[call.result].elements # heap.docs[call.spec].elements
            /\ deref(heap, call.result)
                    = applySpecPatch(deref(call.before, call.spec), PatchOf(call.key)).result

(* A test patch, which has no observable effect, applied to a document an *)
(* earlier call returned: the result has the content of the input.        *)
C12_Witness ==
    /\ call.done /\ call.ok
    /\ call.key = "t"
    /\ call.spec > 1
    /\ deref(heap, call.result) = deref(heap, call.spec)
    /\ heap.maps[heap.docs[call.spec].elements]["c1"] = Card

(* C13: on text-end, a non-blank buffered remainder that is not a patch   *)
(* is appended to the current segment without a line terminator and       *)
(* exactly one data-ui-text event is emitted for it: the event carries    *)
(* the segment's text followed by the remainder exactly as buffered.      *)
C13_TextRemainderUnterminated ==
    (hist.end.now /\ parseSpecLine(hist.end.buf).type = "text") =>
        /\ Len(out) = hist.end.out + 1
        /\ out[Len(out)] = DataUIText(hist.end.idx, hist.end.text \o hist.end.buf)
        /\ Last(out[Len(out)].text) # NL

(* A remainder flushed into a segment that already holds a complete line. *)
C13_Witness ==
    /\ hist.end.now
    /\ hist.end.buf = <<"b">>
    /\ hist.end.text = <<"a", NL>>
    /\ out[Len(out)].text = <<"a", NL, "b">>

(* The patch a text-end found as the buffered remainder, applied by the   *)
(* engine to the document the text-end found.                             *)
EndPatch == applySpecStreamPatch(hist.end.spec, PatchOf(parseSpecLine(hist.end.buf).data))

EndIsPatch == hist.end.now /\ parseSpecLine(hist.end.buf).type = "patch"

(* C14 as stated: on text-end, a buffered remainder that is a complete    *)
(* patch is applied to the current document and exactly one data-ui event *)
(* carrying the result is emitted, and no text.                           *)
C14_PatchRemainderEmitted ==
    EndIsPatch =>
        /\ Len(out) = hist.end.out + 1
        /\ out[Len(out)] = DataUI(EndPatch.doc)
        /\ currentSpec = EndPatch.doc

(* C14 amended: on text-end, a buffered remainder that is a complete      *)
(* patch is applied to the current document; when the application         *)
(* succeeds exactly one data-ui event carrying the result is emitted,     *)
(* when it fails no event is emitted and the document stays as it was;    *)
(* in both cases no text is emitted for it.                               *)
C14_PatchRemainderApplied ==
    EndIsPatch =>
        IF EndPatch.ok
        THEN /\ Len(out) = hist.end.out + 1
             /\ out[Len(out)] = DataUI(EndPatch.doc)
             /\ currentSpec = EndPatch.doc
        ELSE /\ Len(out) = hist.end.out
             /\ currentSpec = hist.end.spec

(* An unterminated add patch flushed onto a document that has a root,     *)
(* while the segment holds text.                                          *)
C14_Witness ==
    /\ EndIsPatch
    /\ hist.end.buf = <<"{", "e", "}">>
    /\ hist.end.spec.root = "c1"
    /\ hist.end.text # <<>>
    /\ out[Len(out)].doc = [EmptySpec EXCEPT !.root = "c1", !.elements["c1"] = Card]

(* C15: text-end closes the current segment definitively: a text line     *)
(* processed after a text-end is emitted under a segment index strictly   *)
(* greater than the index of every segment that received text before     *)
(* that text-end.                                                         *)
C15_TextEndClosesSegment ==
    \A i, j \in TextIdx :
        hist.tags[i].ends < hist.tags[j].ends => out[i].seg < out[j].seg

(* Text before and after a text-end with no patch line between them. *)
C15_Witness ==
    \E i, j \in TextIdx :
        /\ hist.tags[j].ends = hist.tags[i].ends + 1
        /\ hist.tags[j].bc = hist.tags[i].bc + 1
        /\ hist.tags[i].termd
        /\ out[j].seg = out[i].seg + 1

(* C16: the segment indices of successive data-ui-text events never       *)
(* decrease, and once a patch line or a text-end has been processed no    *)
(* later data-ui-text event carries the index of a segment that had text  *)
(* before that boundary.                                                  *)
C16_ClosedSegmentNeverMutated ==
    \A i, j \in TextIdx :
        i < j =>
            /\ out[i].seg <= out[j].seg
            /\ hist.tags[i].bc < hist.tags[j].bc => out[i].seg # out[j].seg

(* A remainder flushed by a text-end, then a patch, then text in the next segment. *)
C16_Witness ==
    \E i, j \in TextIdx, p \in DOMAIN out :
        /\ i < p /\ p < j
        /\ IsDataUI(out[p])
        /\ ~ hist.tags[i].termd
        /\ hist.tags[j].bc = hist.tags[i].bc + 2
        /\ out[j].seg = out[i].seg + 1

(* Chunks on the queue of the derived stream that the consumer has not    *)
(* taken yet.                                                             *)
Undelivered == Len(out) - delivered

(* C17: the orchestrator takes the next chunk of the outer stream only    *)
(* when the consumer demands a derived event, i.e. when no derived event  *)
(* is waiting on the queue; so with a consumer that does not read, the    *)
(* events produced and not delivered are those of one outer chunk at most.*)
C17_PullBased ==
    [][hist.nEvents' > hist.nEvents => Undelivered = 0]_vars

(* C18: after the consumer has cancelled the derived stream the           *)
(* orchestrator takes no further chunk from the outer stream and its line *)
(* buffer is not written any more.                                        *)
C18_StopsAfterCancel ==
    [][status = "cancelled" => (hist.nEvents' = hist.nEvents /\ specBuffer' = specBuffer)]_vars

(* C19: for two response streams of one UITransport under any             *)
(* interleaving of their events, the line buffer, document, segment       *)
(* index, segment text and derived events of each stream are those of     *)
(* that stream's own outer events handled alone.                          *)
C19_StreamsIsolated ==
    /\ Cur = RunOf(State0, peer.inA)
    /\ peer.st = RunOf(State0, peer.inB)

(* Stream A receives a patch in two fragments while stream B emits text   *)
(* and ends its text between and after them.                              *)
C19_Witness ==
    /\ peer.order = <<"A", "B", "A", "B">>
    /\ peer.inA = << TextDeltaChunk("t1", <<"{", "e">>),
                     TextDeltaChunk("t1", <<"}", NL, "b", NL>>) >>
    /\ peer.inB = << TextDeltaChunk("t1", <<"a", NL>>), TextEndChunk("t1") >>
    /\ Len(out) = 2 /\ IsDataUI(out[1])
    /\ Len(peer.st.out) = 1 /\ peer.st.idx = 1

(* The lines, each followed by a line terminator. *)
RECURSIVE JoinLines(_)
JoinLines(ls) == IF ls = <<>> THEN <<>> ELSE Head(ls) \o <<NL>> \o JoinLines(Tail(ls))

Terminators(str) == Len(SelectSeq(str, LAMBDA c : c = NL))

(* What was pushed after the last line terminator. *)
Remainder == SubSeq(textContent, Len(JoinLines(lineOut.taken)) + 1, Len(textContent))

(* C20: for fragments pushed into the line buffer whose concatenation has *)
(* N line terminators, exactly N complete lines are taken out of the      *)
(* buffer, in order and with the content between the terminators (the     *)
(* non-blank ones are given back classified), what follows the last       *)
(* terminator stays in the buffer, and the final flush gives back at most *)
(* one remainder: that content when it is not blank, nothing otherwise.   *)
C20_LinesTakenOut ==
    /\ Len(lineOut.taken) = Terminators(textContent)
    /\ \A i \in DOMAIN lineOut.taken : Terminators(lineOut.taken[i]) = 0
    /\ JoinLines(lineOut.taken) = SubSeq(textContent, 1, Len(JoinLines(lineOut.taken)))
    /\ Terminators(Remainder) = 0
    /\ lineOut.results = parseLines(lineOut.taken)
    /\ ~ lineOut.done => specBuffer = Remainder
    /\ lineOut.done =>
        /\ Len(lineOut.flushed) <= 1
        /\ lineOut.flushed = IF trim(Remainder) = <<>> THEN <<>>
                              ELSE <<parseSpecLine(Remainder)>>

(* A patch cut across two fragments, a blank line and a text line taken   *)
(* out, and a text remainder given back by the flush.                     *)
C20_Witness ==
    /\ lineOut.done
    /\ textContent = <<"{", "e", "}", NL, "b", NL, NL, "b">>
    /\ Len(lineOut.taken) = 3
    /\ Len(lineOut.results) = 2
    /\ lineOut.flushed = << [type |-> "text", data |-> "", content |-> <<"b">>] >>

(* The lines taken out of the buffer that are not blank. *)
NonBlankTaken == SelectSeq(lineOut.taken, LAMBDA l : trim(l) # <<>>)

(* Only text has been given back: a patch line is given back as the       *)
(* object parsed from it, which has no characters to concatenate.         *)
OnlyTextReturned ==
    /\ \A i \in DOMAIN lineOut.results : lineOut.results[i].type = "text"
    /\ \A i \in DOMAIN lineOut.flushed : lineOut.flushed[i].type = "text"

RECURSIVE ContentLines(_)
ContentLines(rs) ==
    IF rs = <<>> THEN <<>> ELSE Head(rs).content \o <<NL>> \o ContentLines(Tail(rs))

(* The text lines given back so far, terminators reinserted, the flush    *)
(* result (which had no terminator) included.                             *)
ReturnedText ==
    ContentLines(lineOut.results) \o
        (IF lineOut.flushed = <<>> THEN <<>> ELSE lineOut.flushed[1].content)

IsPrefix(s, t) == Len(s) <= Len(t) /\ s = SubSeq(t, 1, Len(s))

(* C21 as stated, for pushes that gave back text only: after the final    *)
(* flush, the lines returned, terminators reinserted and the flush result *)
(* included, are the concatenation of the pushed fragments, except that a *)
(* whitespace-only rest may have been discarded at flush.                 *)
C21_NeverDropsData ==
    lineOut.done /\ OnlyTextReturned =>
        /\ IsPrefix(ReturnedText, textContent)
        /\ trim(SubSeq(textContent, Len(ReturnedText) + 1, Len(textContent))) = <<>>
        /\ lineOut.flushed # <<>> => ReturnedText = textContent

(* C21 amended: the line buffer drops nothing but blank lines and a       *)
(* blank rest.  Every complete line that is not empty or whitespace-only  *)
(* is given back, in order: a text line with the line as its content,     *)
(* character for character, a patch line as the object JSON.parse gives   *)
(* for it (the value, not the characters of the line).  The lines taken   *)
(* out and the rest in the buffer are the pushed fragments, and the flush *)
(* gives back that rest unless it is blank.  When no complete line was    *)
(* blank and none was a patch, the lines returned with terminators        *)
(* reinserted and the flush result included are the pushed fragments, up  *)
(* to a whitespace-only rest discarded at flush.                          *)
C21_DropsOnlyBlankLines ==
    /\ Len(lineOut.results) = Len(NonBlankTaken)
    /\ \A i \in DOMAIN lineOut.results :
          /\ lineOut.results[i].type \in {"text", "patch"}
          /\ lineOut.results[i].type = "text" =>
                lineOut.results[i].content = NonBlankTaken[i]
          /\ lineOut.results[i].type = "patch" =>
                /\ JSONParse(trim(NonBlankTaken[i])).ok
                /\ lineOut.results[i].data = JSONParse(trim(NonBlankTaken[i])).key
    /\ JoinLines(lineOut.taken) \o Remainder = textContent
    /\ ~ lineOut.done => specBuffer = Remainder
    /\ lineOut.done =>
        /\ trim(Remainder) = <<>> <=> lineOut.flushed = <<>>
        /\ \A i \in DOMAIN lineOut.flushed :
              /\ lineOut.flushed[i].type = "text" => lineOut.flushed[i].content = Remainder
              /\ lineOut.flushed[i].type = "patch" =>
                    lineOut.flushed[i].data = JSONParse(trim(Remainder)).key
        /\ OnlyTextReturned /\ NonBlankTaken = lineOut.taken =>
            /\ IsPrefix(ReturnedText, textContent)
            /\ trim(SubSeq(textContent, Len(ReturnedText) + 1, Len(textContent))) = <<>>
            /\ lineOut.flushed # <<>> => ReturnedText = textContent

(* A text line, a blank line and a patch with a blank before it were      *)
(* pushed in pieces and flushed: the text line came back as pushed, the   *)
(* blank line did not come back, the patch came back as an object.        *)
C21_Witness ==
    /\ lineOut.done
    /\ textContent = <<"a", NL, NL, " ", "{", "e", "}">>
    /\ lineOut.results = << [type |-> "text", data |-> "", content |-> <<"a">>] >>
    /\ lineOut.flushed = << [type |-> "patch", data |-> "e", content |-> <<>>] >>

(* C22: flush returns the buffered content as one final classified line   *)
(* when it is non-empty after trimming and nothing when the buffer is     *)
(* empty or whitespace-only; a flush that immediately follows another     *)
(* flush returns nothing.                                                 *)
C22_FlushReturnsRemainderOnce ==
    lineOut.flushes > 0 =>
        /\ trim(lineOut.before) = <<>> => lineOut.last = NullLine
        /\ trim(lineOut.before) # <<>> =>
            /\ lineOut.last = parseSpecLine(lineOut.before)
            /\ lineOut.last.type \in {"text", "patch"}
            /\ lineOut.last.type = "text" => lineOut.last.content = lineOut.before
        /\ lineOut.flushes >= 2 => lineOut.last = NullLine

(* The first flush gave back a buffered text with a blank in front, the   *)
(* flush right after it gave back nothing.                                *)
C22_Witness ==
    /\ lineOut.flushes = 2
    /\ lineOut.flushed = << [type |-> "text", data |-> "", content |-> <<" ", "b">>] >>
    /\ lineOut.last = NullLine

NonBlank(ls) == SelectSeq(ls, LAMBDA l : trim(l) # <<>>)

(* C23: the content of every line classified as text is the input line    *)
(* with only the line terminator removed, leading and trailing whitespace *)
(* included, although the kind of the line is that of the trimmed line;   *)
(* the same holds for a remainder returned by flush.                      *)
C23_TextContentVerbatim ==
    /\ Len(lineOut.results) = Len(NonBlank(lineOut.taken))
    /\ \A i \in DOMAIN lineOut.results :
        i \in DOMAIN NonBlank(lineOut.taken) =>
            /\ lineOut.results[i].type = parseSpecLine(trim(NonBlank(lineOut.taken)[i])).type
            /\ lineOut.results[i].type = "text"
                   => lineOut.results[i].content = NonBlank(lineOut.taken)[i]
    /\ (lineOut.flushes > 0 /\ lineOut.last.type = "text")
           => lineOut.last.content = lineOut.before

(* A text line with a blank before it, returned with the blank, and a     *)
(* patch line with a blank before it that is still a patch.               *)
C23_Witness ==
    /\ lineOut.taken = << <<" ", "a">>, <<" ", "{", "r", "}">> >>
    /\ lineOut.results[1] = [type |-> "text", data |-> "", content |-> <<" ", "a">>]
    /\ lineOut.results[2].type = "patch"

(* The lines parseSpecLine has been given, each with what came back for   *)
(* it (NullLine when nothing came back).                                  *)
Classified ==
    (IF lineOut.taken = <<>> THEN {}
     ELSE {[line |-> lineOut.taken[1],
            result |-> IF lineOut.results = <<>> THEN NullLine ELSE lineOut.results[1]]})
    \cup
    (IF lineOut.flushes = 0 THEN {}
     ELSE {[line |-> lineOut.before, result |-> lineOut.last]})

(* C24: classification is total and never raises: a non-blank line that   *)
(* is not JSON, or that is JSON without a truthy op or a truthy path      *)
(* (null, numbers, strings and arrays included), is text with the         *)
(* original line as content, never an error and never a patch.            *)
C24_ClassificationTotal ==
    \A c \in Classified :
        /\ c.result.type \in {"null", "text", "patch"}
        /\ (/\ trim(c.line) # <<>>
            /\ \/ ~ JSONParse(trim(c.line)).ok
               \/ ~ Truthy(JSONParse(trim(c.line)).op)
               \/ ~ Truthy(JSONParse(trim(c.line)).path))
               => c.result = TextLine(c.line)

(* The line null with a blank before it, classified as text. *)
C24_Witness ==
    /\ lineOut.taken = << <<" ", "n">> >>
    /\ lineOut.results = << [type |-> "text", data |-> "", content |-> <<" ", "n">>] >>

(* A line matches the patch wire shape: a JSON object whose op is one of  *)
(* the six operations and whose path is a string.                         *)
WireShape(parsed) ==
    /\ parsed.ok
    /\ parsed.kind = "object"
    /\ parsed.op.t = "string" /\ parsed.op.s \in SpecPatchOperation
    /\ parsed.path.t = "string"

(* C25: a line is treated as a patch only when it matches the patch wire  *)
(* shape; every line not matching it is text.                             *)
C25_PatchOnlyWireShape ==
    \A c \in Classified :
        (trim(c.line) # <<>> /\ ~ WireShape(JSONParse(trim(c.line))))
            => c.result.type = "text"

(* C26: a line that is empty or whitespace-only is skipped: a text-delta  *)
(* whose complete lines are all blank produces no derived event, leaves   *)
(* the segment's text as it is, and neither opens nor closes a segment.   *)
C26_BlankLineSkipped ==
    hist.blank.now =>
        /\ Len(out) = hist.blank.out
        /\ currentSegmentText = hist.blank.text
        /\ segmentIndex = hist.blank.idx
        /\ currentSpec = hist.blank.spec

(* A whitespace-only line ended while the segment holds text. *)
C26_Witness ==
    /\ hist.blank.now
    /\ hist.blank.buf = <<" ">>
    /\ hist.blank.text = <<"a", NL>>
    /\ specBuffer = <<>>

(* C27: no text-start, text-delta or text-end event appears in the        *)
(* derived sequence; a text-start produces no derived event and changes   *)
(* no orchestrator state; what a text-delta or text-end carried is        *)
(* delivered only as data-ui and data-ui-text events.                     *)
C27_TextEventsSuppressed ==
    /\ \A i \in DOMAIN out : out[i].type \notin {"text-start", "text-delta", "text-end"}
    /\ \A i \in Tagged :
        hist.tags[i].content # <<>> => IsDataUI(out[i]) \/ IsDataUIText(out[i])
    /\ hist.start.now =>
        /\ Len(out) = hist.start.out
        /\ specBuffer = hist.start.buf
        /\ currentSegmentText = hist.start.text
        /\ segmentIndex = hist.start.idx
        /\ currentSpec = hist.start.spec

(* A text-start arrives in the middle of a segment: text emitted, a line  *)
(* half buffered.                                                         *)
C27_Witness ==
    /\ hist.start.now
    /\ hist.start.out > 0
    /\ hist.start.text # <<>>
    /\ hist.start.buf # <<>>
    /\ \E i \in TextIdx : TRUE

(* Whether every patch of keys applies when they are folded from doc. *)
RECURSIVE FoldOk(_, _)
FoldOk(doc, keys) ==
    IF keys = <<>> THEN TRUE
    ELSE /\ applySpecStreamPatch(doc, PatchOf(Head(keys))).ok
         /\ FoldOk(applySpecStreamPatch(doc, PatchOf(Head(keys))).doc, Tail(keys))

(* C28 as stated: the result of buildSpec equals the patches applied one  *)
(* by one, in order, to the empty document.                               *)
C28_ResultIsFold ==
    call.done /\ call.ok => call.result = FoldPatches(EmptySpec, call.patches)

(* C28: buildSpec returns exactly when every patch applies in turn; its   *)
(* result then has the elements and the state of the left fold of the     *)
(* patches from the empty document and the fold's root unless that root   *)
(* is empty; for no patches the result is the empty document.             *)
C28_FoldExceptEmptyRoot ==
    call.done =>
        /\ call.ok = FoldOk(EmptySpec, call.patches)
        /\ call.ok =>
            /\ [call.result EXCEPT !.root = ""]
                  = [FoldPatches(EmptySpec, call.patches) EXCEPT !.root = ""]
            /\ FoldPatches(EmptySpec, call.patches).root # ""
                  => call.result.root = FoldPatches(EmptySpec, call.patches).root
        /\ call.patches = <<>> => call.ok /\ call.result = EmptySpec

(* Three patches folded in order: the root set, an element added, one of  *)
(* its fields replaced.                                                   *)
C28_Witness ==
    /\ call.done
    /\ call.ok
    /\ call.patches = <<"r", "e", "n">>
    /\ call.result = [EmptySpec EXCEPT !.root = "c1", !.elements["c1"].type = "Card",
                                       !.elements["c1"].props = [title |-> "New", size |-> "m"]]

(* The ids, as written in the path, of the add and replace patches of     *)
(* keys that are addressed to /elements/<id>, in patch order.             *)
RECURSIVE DirectIds(_)
DirectIds(keys) ==
    IF keys = <<>> THEN <<>>
    ELSE (IF /\ PatchOf(Head(keys)).op \in {"add", "replace"}
             /\ Len(PatchOf(Head(keys)).path) = 2
             /\ PatchOf(Head(keys)).path[1] = "elements"
          THEN <<PatchOf(Head(keys)).path[2]>>
          ELSE <<>>) \o DirectIds(Tail(keys))

(* C29: when the folded root is empty and some add or replace patch was   *)
(* addressed to /elements/<id>, the root of buildSpec's result is the     *)
(* first such id in patch order; patches on nested fields, removes and    *)
(* moves contribute no id (the root stays empty when there is no other),  *)
(* and a non-empty folded root is the root of the result.                 *)
C29_RootInference ==
    call.done /\ call.ok =>
        /\ FoldPatches(EmptySpec, call.patches).root = "" /\ DirectIds(call.patches) # <<>>
              => call.result.root = DirectIds(call.patches)[1]
        /\ FoldPatches(EmptySpec, call.patches).root = "" /\ DirectIds(call.patches) = <<>>
              => call.result.root = ""
        /\ FoldPatches(EmptySpec, call.patches).root # ""
              => call.result.root = FoldPatches(EmptySpec, call.patches).root

(* Two elements and a nested field: the root is the id of the first. *)
C29_Witness ==
    /\ call.done
    /\ call.ok
    /\ call.patches = <<"f", "e", "n">>
    /\ call.result.root = "c2"
    /\ call.result.elements["c1"].props["title"] = "New"

(* The keys of an elements object. *)
KeysOf(elements) == {id \in ElemIds : elements[id] # NoElement}

(* The result doc differs from the input doc in nothing but the field     *)
(* name of the props of element id, which holds value.                    *)
OnlyPropChanged(input, result, id, name, value) ==
    /\ result.root = input.root
    /\ result.state = input.state
    /\ KeysOf(result.elements) = KeysOf(input.elements)
    /\ \A other \in ElemIds \ {id} : result.elements[other] = input.elements[other]
    /\ result.elements[id].type = input.elements[id].type
    /\ \A n \in PropNames \ {name} :
          result.elements[id].props[n] = input.elements[id].props[n]
    /\ result.elements[id].props[name] = value

(* C30: a replace patch addressed to /elements/c1/props/title that        *)
(* applySpecPatch applies changes only that field: the element's type and *)
(* other props, every other element, root and state are in the result as  *)
(* in the input, and the elements object has the keys it had.             *)
C30_NestedReplaceOnlyField ==
    (call.done /\ call.ok /\ call.key = "n") =>
        OnlyPropChanged(deref(call.before, call.spec), deref(heap, call.result),
                        "c1", "title", "New")

(* The field of one of two elements is replaced in a document with a root *)
(* and a state.                                                           *)
C30_Witness ==
    /\ call.done /\ call.ok
    /\ call.key = "n"
    /\ deref(call.before, call.spec)
          = [root |-> "c1",
             elements |-> [EmptySpec.elements EXCEPT !["c1"] = Card, !["c2"] = Button],
             state |-> StateOf(<<>>)]
    /\ deref(heap, call.result).elements["c1"].props["title"] = "New"
    /\ deref(heap, call.spec).elements["c1"].props["title"] = "Hello"

(* C39: whenever buildSpec sets root by inference (the folded root is     *)
(* empty, the root of the result is not), the root of the result is the   *)
(* key of an element of the result.                                       *)
C39_InferredRootPresent ==
    (/\ call.done
     /\ call.ok
     /\ FoldPatches(EmptySpec, call.patches).root = ""
     /\ call.result.root # "")
        => /\ call.result.root \in ElemIds
           /\ call.result.elements[call.result.root] # NoElement

(* C33: a patch line that fails to apply leaves the document, the segment *)
(* index and the segment's text as they were: the document after the      *)
(* failure is the one before it, and two text events with no applied      *)
(* patch and no text-end between them (failed patches only) are in one    *)
(* segment, the later text extending the earlier.                         *)
C33_FailedPatchKeepsSegment ==
    /\ hist.failedNow => currentSpec = hist.failDoc
    /\ \A i, j \in TextIdx :
        (/\ i < j
         /\ hist.tags[i].ends = hist.tags[j].ends
         /\ \A k \in i..j : ~ IsDataUI(out[k]))
            => /\ out[i].seg = out[j].seg
               /\ IsPrefix(out[i].text, out[j].text)

(* C32: after flush has returned, whether with a line or with nothing,    *)
(* the line buffer is empty: right after a text-end nothing of what was   *)
(* buffered before it is left to join a later line.                       *)
C32_BufferEmptyAfterFlush ==
    hist.end.now => specBuffer = <<>>

(* The data-ui-text events before position i. *)
TextBefore(i) == {j \in DOMAIN out : j < i /\ IsDataUIText(out[j])}

(* C34: the segment indices of the data-ui-text events start at 0 and     *)
(* have no gaps: the first text event carries index 0, every later one    *)
(* the index of the text event before it or that index plus one, whatever *)
(* number of patch lines and text-ends lies between them; every           *)
(* data-ui-text event has non-empty text, and segmentIndex is at most one *)
(* more than the last index emitted.                                      *)
C34_SegmentIndicesGapFree ==
    /\ \A i \in DOMAIN out :
        IsDataUIText(out[i]) =>
            /\ out[i].text # <<>>
            /\ TextBefore(i) = {} => out[i].seg = 0
            /\ \A j \in TextBefore(i) :
                (\A k \in TextBefore(i) : k <= j)
                    => out[i].seg \in {out[j].seg, out[j].seg + 1}
    /\ (\A i \in DOMAIN out : ~ IsDataUIText(out[i])) => segmentIndex = 0
    /\ \A i \in DOMAIN out :
        (IsDataUIText(out[i]) /\ TextBefore(Len(out) + 1) \subseteq 1..i)
            => segmentIndex \in {out[i].seg, out[i].seg + 1}

(* A patch line and a text-end with no text between them lie between two  *)
(* text events: the second text is in the segment right after the first.  *)
C34_Witness ==
    \E i, j \in TextIdx :
        /\ i < j
        /\ hist.tags[j].bc >= hist.tags[i].bc + 2
        /\ hist.tags[j].ends = hist.tags[i].ends + 1
        /\ TextBefore(i) = {}
        /\ out[j].seg = 1

(* The patches of keys that address the state tree, in patch order. *)
StatePatches(keys) == SelectSeq(keys, LAMBDA key : PatchOf(key).path[1] = "state")

(* C31: add /state/items with an empty array followed by adds at          *)
(* /state/items/0, /state/items/1, ... in index order builds the array    *)
(* with no length declared: whatever patches on root and elements lie     *)
(* between them, the patches apply and state.items is the sequence of the *)
(* values added, in order.                                                *)
C31_ItemsBuiltInOrder ==
    \A n \in 0..2 :
        (call.done /\ StatePatches(call.patches) = <<"i">> \o SubSeq(<<"j", "k">>, 1, n))
            => /\ call.ok = FoldOk(EmptySpec, call.patches)
               /\ call.ok => /\ call.result.state.defined
                             /\ call.result.state.items = SubSeq(<<"A", "B">>, 1, n)

(* The array declared empty, then positions 0 and 1 added. *)
C31_Witness ==
    /\ call.done
    /\ call.ok
    /\ call.patches = <<"i", "j", "k">>
    /\ call.result.state.items = <<"A", "B">>

----------------------------------------------------------------------------
(* The read loop of start(): the response body as bytes (lines 227-256)   *)

(* A body is a sequence of byte tokens.  The tokens of the line alphabet  *)
(* keep their meaning in a body; the tokens that only an outer line has   *)
(* are capitals and signs, so that no token has two readings:             *)
(*    ":"   data:                          "D"   [DONE]                   *)
(*    "E"   "type":"text-end","id":"t1"                                   *)
(*    "S"   "type":"text-start","id":"t1"                                 *)
(*    "O"   "type":"tool-call","toolName":"m1"    (another chunk type)    *)
(*    "T"   "type":"text-delta","id":"t1","delta":"    (up to and with    *)
(*          the opening quote of the string)                              *)
(*    "q"   a double quote                                                *)
(*    "N"   \n, the escape of a newline                                   *)
(*    "X"   oops, a word that is no JSON text                             *)
(*    "U1" "U2"   the two bytes of the character "U" (e with an accent)   *)
(*    "?"   U+FFFD, what the decoder gives for a broken character         *)
(* Between two quotes every token but "q" is text of the string: it       *)
(* stands for its source text with the quotes in it escaped, JSON.parse   *)
(* gives that text back, and "N" gives a newline.  Outside a string the   *)
(* value tokens "0", "l", "s" and "n" and the object <<"{", key, "}">> of *)
(* every member token are JSON texts as in the line alphabet, and "a",    *)
(* "b", "N", "X", "U", "?", ":" and "D" are no JSON.                      *)
MaxOuterLines == 2

OuterLines ==
    { <<"{", "T", "a", "N", "q", "}">>,
      <<":", " ", "{", "T", "U1", "U2", "N", "q", "}">>,
      <<"{", "T", "{", "e", "}", "N", "q", "}">>,
      <<"{", "E", "}">>,
      <<":", "{", "O", "}", " ">>,
      <<":", " ", "D">>,
      <<" ">>,
      <<"X">>,
      <<"0">>,
      <<"n">>,
      <<"q", "X", "q">> }

RECURSIVE joinLines(_)
joinLines(lines) ==
    IF lines = <<>> THEN <<>> ELSE Head(lines) \o <<NL>> \o joinLines(Tail(lines))

Bodies ==
    UNION { { joinLines(ls) : ls \in [1..n -> OuterLines] } : n \in 0..MaxOuterLines }
    \cup UNION { { Front(joinLines(ls)) : ls \in [1..n -> OuterLines] } : n \in 1..MaxOuterLines }

(* TextDecoder: held is the lead byte kept from the bytes seen so far. *)
RECURSIVE decodeFrom(_, _, _)
decodeFrom(text, held, bytes) ==
    IF bytes = <<>> THEN [text |-> text, held |-> held]
    ELSE IF held
         THEN IF Head(bytes) = "U2" THEN decodeFrom(text \o <<"U">>, FALSE, Tail(bytes))
              ELSE decodeFrom(text \o <<"?">>, FALSE, bytes)
    ELSE IF Head(bytes) = "U1" THEN decodeFrom(text, TRUE, Tail(bytes))
    ELSE IF Head(bytes) = "U2" THEN decodeFrom(text \o <<"?">>, FALSE, Tail(bytes))
    ELSE decodeFrom(text \o <<Head(bytes)>>, FALSE, Tail(bytes))

(* textDecoder.decode(): the end of the input, line 232. *)
decodeEnd(held) == IF held THEN <<"?">> ELSE <<>>

(* decode(value) without stream: true: every call ends the input. *)
decodeNoStream(held, value) ==
    [text |-> decodeFrom(<<>>, FALSE, value).text
                \o decodeEnd(decodeFrom(<<>>, FALSE, value).held),
     held |-> FALSE]

(* textDecoder.decode(value, { stream: true }): line 236. *)
decode(held, value) == decodeFrom(<<>>, held, value)

(* JSON.parse of a text with tokens of the outer alphabet.  chunkOf reads *)
(* the text between the braces of an object or, with quoted, between the  *)
(* quotes of a string.  A string has no type and takes the branch of the  *)
(* other chunks (218-221), with its characters as the chunk.              *)
chunkOf(members, quoted) ==
    IF quoted
    THEN IF \A i \in 1..Len(members) : members[i] # "q"
         THEN [ok |-> TRUE,
               chunk |-> [OtherChunk("string")
                            EXCEPT !.delta = [i \in 1..Len(members) |->
                                                IF members[i] = "N" THEN NL ELSE members[i]]]]
         ELSE [ok |-> FALSE, chunk |-> OtherChunk("")]
    ELSE IF members = <<"E">> THEN [ok |-> TRUE, chunk |-> TextEndChunk("t1")]
    ELSE IF members = <<"S">> THEN [ok |-> TRUE, chunk |-> TextStartChunk("t1")]
    ELSE IF members = <<"O">> THEN [ok |-> TRUE, chunk |-> OtherChunk("m1")]
    ELSE IF /\ Len(members) >= 2
            /\ Head(members) = "T"
            /\ Last(members) = "q"
            /\ \A i \in 2..(Len(members) - 1) : members[i] # "q"
         THEN [ok |-> TRUE,
               chunk |-> TextDeltaChunk("t1",
                             [i \in 1..(Len(members) - 2) |->
                                 IF members[i + 1] = "N" THEN NL ELSE members[i + 1]])]
    ELSE [ok |-> FALSE, chunk |-> OtherChunk("")]

(* JSON.parse(jsonLine) as UIMessageChunk: line 166.  Every JSON text     *)
(* parses, whatever it is: null gives the chunk of type "null" (it has no *)
(* property to read), a number, an array, a string and an object without  *)
(* type give a chunk that is none of the three text types.  ok is FALSE   *)
(* for a text that is no JSON, for which JSON.parse throws.               *)
parseChunk(jsonLine) ==
    IF JSONParse(jsonLine).ok
    THEN [ok |-> TRUE,
          chunk |-> IF JSONParse(jsonLine).kind = "null"
                    THEN [OtherChunk("") EXCEPT !.type = "null"]
                    ELSE IF JSONParse(jsonLine).kind = "object"
                    THEN OtherChunk("{" \o JSONParse(jsonLine).key \o "}")
                    ELSE OtherChunk(NonWhitespace(jsonLine)[1])]
    ELSE IF Len(jsonLine) >= 2 /\ Head(jsonLine) = "{" /\ Last(jsonLine) = "}"
    THEN chunkOf(trim(SubSeq(jsonLine, 2, Len(jsonLine) - 1)), FALSE)
    ELSE IF Len(jsonLine) >= 2 /\ Head(jsonLine) = "q" /\ Last(jsonLine) = "q"
    THEN chunkOf(SubSeq(jsonLine, 2, Len(jsonLine) - 1), TRUE)
    ELSE [ok |-> FALSE, chunk |-> OtherChunk("")]

(* let jsonLine = line.trim(); the prefix data: is dropped: 157-160. *)
jsonLineOf(line) ==
    IF trim(line) # <<>> /\ Head(trim(line)) = ":" THEN trimStart(Tail(trim(line)))
    ELSE trim(line)

(* The lines processLine leaves without a step: the blank line (155),     *)
(* [DONE] (162), and the lines that end in the catch before any branch is *)
(* taken (222-224): JSON.parse has thrown, or the line is null and        *)
(* reading chunk.type has thrown.                                         *)
Skipped(line) ==
    \/ trim(line) = <<>>
    \/ jsonLineOf(line) = <<"D">>
    \/ ~ parseChunk(jsonLineOf(line)).ok
    \/ parseChunk(jsonLineOf(line)).chunk.type = "null"

(* processLine without the try block: what JSON.parse or the reading of   *)
(* chunk.type throws is thrown to the loop.                               *)
processOuterLineUncaught(st, line) ==
    IF trim(line) = <<>> \/ jsonLineOf(line) = <<"D">> THEN st
    ELSE IF Skipped(line) THEN [st EXCEPT !.thrown = TRUE]
    ELSE processLine(st, parseChunk(jsonLineOf(line)).chunk)

(* processLine(line): lines 154-225. *)
processOuterLine(st, line) ==
    IF Skipped(line) THEN st
    ELSE processLine(st, parseChunk(jsonLineOf(line)).chunk)

(* for (const line of lines) processLine(line): 241-243. *)
RECURSIVE forEachLine(_, _)
forEachLine(st, lines) ==
    IF lines = <<>> \/ st.thrown THEN st
    ELSE forEachLine(processOuterLine(st, Head(lines)), Tail(lines))

(* A catch that closes the stream instead of putting it in error. *)
caughtThenClosed(r, err) == [r EXCEPT !.closes = @ + 1, !.released = TRUE]

(* catch (error) controller.error(error); finally releaseLock(): 251-255. *)
(* error() does nothing on a stream that is no longer readable.           *)
caught(r, err) ==
    [r EXCEPT !.error = IF r.cancelled THEN @ ELSE err, !.released = TRUE]

(* controller.close() that is never called. *)
closeNever(r) == [r EXCEPT !.released = TRUE]

(* controller.close(); finally releaseLock(): 250, 253-255.  On a stream  *)
(* that is no longer readable close() throws a TypeError, which the catch *)
(* of the loop takes.                                                     *)
close(r) ==
    IF r.cancelled THEN caught(r, "TypeError")
    ELSE [r EXCEPT !.closes = @ + 1, !.released = TRUE]

(* The state of the derived stream after a pass of the loop. *)
StatusOf(r) ==
    IF r.cancelled THEN (IF r.released THEN "released" ELSE "cancelled")
    ELSE IF r.error # "" THEN "errored"
    ELSE IF r.closes > 0 THEN "closed"
    ELSE "open"

(* History: the state a read found, when all its lines were skipped. *)
obsSkip(st, lines) ==
    IF lines # <<>> /\ \A i \in 1..Len(lines) : Skipped(lines[i])
    THEN [now |-> TRUE, buf |-> st.buf, out |-> Len(st.out), text |-> st.text,
          idx |-> st.idx, spec |-> st.spec]
    ELSE NoEnd

ReadInit ==
    /\ specBuffer = <<>>
    /\ currentSpec = EmptySpec
    /\ segmentIndex = 0
    /\ currentSegmentText = <<>>
    /\ out = <<>>
    /\ status = "open"
    /\ textContent \in Bodies
    /\ pending = textContent
    /\ hist = Hist0
    /\ heap = EmptyHeap
    /\ call = NoCall
    /\ delivered = 0
    /\ peer = NoPeer
    /\ lineOut = NoLines
    /\ reader = NoReader

(* The loop state after the lines of one pass were processed. *)
Store(s, r) ==
    /\ specBuffer' = s.buf
    /\ currentSpec' = s.spec
    /\ segmentIndex' = s.idx
    /\ currentSegmentText' = s.text
    /\ out' = s.out
    /\ hist' = s.h
    /\ reader' = (IF s.thrown THEN caught(r, "thrown") ELSE r)
    /\ status' = StatusOf(reader')

(* One pass of the loop with a value, the next bytes of the body cut at  *)
(* any place: lines 229-243.  The loop does not look at the derived       *)
(* stream: it goes on after the consumer has cancelled.                   *)
ReadChunk ==
    /\ status \in {"open", "cancelled"}
    /\ ~ reader.released
    /\ pending # <<>>
    /\ \E n \in 1..Len(pending) :
        /\ \E d \in {decode(reader.held, SubSeq(pending, 1, n))} :
             \E lines \in {split(reader.buffer \o d.text)} :
               Store(forEachLine(Cur, Front(lines)),
                     [reader EXCEPT !.buffer = Last(lines), !.held = d.held,
                                    !.cancelled = (status = "cancelled"),
                                    !.midLine = @ \/ Last(lines) # <<>>,
                                    !.midChar = @ \/ d.held,
                                    !.lines = @ + Len(lines) - 1,
                                    !.skip = obsSkip(Cur, Front(lines))])
        /\ pending' = SubSeq(pending, n + 1, Len(pending))
    /\ UNCHANGED <<textContent, heap, call, delivered, peer, lineOut>>

(* read() returns done: lines 231-234 and 246-250, 253-255. *)
ReadDone ==
    /\ status \in {"open", "cancelled"}
    /\ ~ reader.released
    /\ pending = <<>>
    /\ \E buffer \in {reader.buffer \o decodeEnd(reader.held)} :
        Store(IF trim(buffer) = <<>> THEN Cur ELSE processOuterLine(Cur, buffer),
              close([reader EXCEPT !.buffer = buffer, !.held = FALSE,
                                   !.cancelled = (status = "cancelled"),
                                   !.lines = @ + (IF trim(buffer) = <<>> THEN 0 ELSE 1),
                                   !.skip = obsSkip(Cur, IF trim(buffer) = <<>> THEN <<>>
                                                         ELSE <<buffer>>)]))
    /\ UNCHANGED <<pending, textContent, heap, call, delivered, peer, lineOut>>

(* read() rejects: lines 251-255. *)
ReadError ==
    /\ status \in {"open", "cancelled"}
    /\ ~ reader.released
    /\ \E err \in {"reset", "timeout"} :
        /\ reader' = caught([reader EXCEPT !.failure = err,
                                           !.cancelled = (status = "cancelled"),
                                           !.skip = NoEnd], err)
        /\ status' = StatusOf(reader')
    /\ UNCHANGED <<specBuffer, currentSpec, segmentIndex, currentSegmentText, out,
                   pending, textContent, hist, heap, call, delivered, peer, lineOut>>

(* The read loop and the consumer of the derived stream, who may cancel   *)
(* it at any time.                                                        *)
SpecRead == ReadInit /\ [][ReadChunk \/ ReadDone \/ ReadError \/ ConsumerCancel]_vars

(* The same loop on a body that is read to its end: every read() of the   *)
(* loop is awaited and the outer stream answers it, with a value while    *)
(* bytes of the body are left and with done after them, so a pass that    *)
(* can be made is made.  The two fairness conditions are on the passes    *)
(* as the outer stream sees them: bytes taken from the body, and the end  *)
(* of the loop.  Nothing makes the consumer cancel.                       *)
SpecReadLive ==
    /\ ReadInit
    /\ [][ReadChunk \/ ReadDone \/ ConsumerCancel]_vars
    /\ WF_pending(/\ status \in {"open", "cancelled"}
                  /\ ~ reader.released
                  /\ pending # <<>>
                  /\ \E n \in 1..Len(pending) : pending' = SubSeq(pending, n + 1, Len(pending)))
    /\ WF_status(/\ status \in {"open", "cancelled"}
                 /\ ~ reader.released
                 /\ pending = <<>>
                 /\ status' \in {"closed", "errored", "released"})

(* The body read as one value and then ended. *)
DecodeAll(body) ==
    decodeFrom(<<>>, FALSE, body).text \o decodeEnd(decodeFrom(<<>>, FALSE, body).held)

WholeRead(body) ==
    forEachLine(State0, IF trim(Last(split(DecodeAll(body)))) = <<>>
                        THEN Front(split(DecodeAll(body)))
                        ELSE split(DecodeAll(body)))

(* C35: once the derived stream is closed, the derived events, the        *)
(* document, the segment index and the segment text are those of the body *)
(* read as a single chunk, however the body was cut into chunks, and a    *)
(* last line without a newline has been processed like the others.        *)
C35_ChunkingIndependent ==
    status = "closed" =>
        \E w \in {WholeRead(textContent)} :
            /\ out = w.out
            /\ currentSpec = w.spec
            /\ segmentIndex = w.idx
            /\ currentSegmentText = w.text
            /\ specBuffer = w.buf

(* A body with a two-byte character, read in values that ended within a   *)
(* line and between the two bytes, and ended without a newline.           *)
C35_Witness ==
    /\ status = "closed"
    /\ reader.midLine
    /\ reader.midChar
    /\ Len(out) >= 2
    /\ Last(textContent) # NL
    /\ \E i \in 1..Len(out) : IsDataUIText(out[i]) /\ "U" \in {out[i].text[j] : j \in 1..Len(out[i].text)}

(* The lines of a body that processLine does not skip. *)
KeptLines(body) == SelectSeq(split(DecodeAll(body)), LAMBDA line : ~ Skipped(line))

(* Blank, [DONE] or no JSON: the lines C36 is about. *)
NotJSON(line) ==
    \/ trim(line) = <<>>
    \/ jsonLineOf(line) = <<"D">>
    \/ ~ parseChunk(jsonLineOf(line)).ok

(* C36: a pass of the read loop whose lines are all blank, [DONE] or      *)
(* invalid JSON (or the JSON text null) enqueues nothing and leaves the   *)
(* document, the segment index, the segment text and the line buffer as   *)
(* they were, and the derived stream is not put in error; the closed      *)
(* stream holds what the body without those lines gives.                  *)
C36_SkippedLineChangesNothing ==
    /\ reader.skip.now =>
          /\ Len(out) = reader.skip.out
          /\ currentSpec = reader.skip.spec
          /\ segmentIndex = reader.skip.idx
          /\ currentSegmentText = reader.skip.text
          /\ specBuffer = reader.skip.buf
          /\ status # "errored"
    /\ status = "closed" =>
          \E w \in {forEachLine(State0, KeptLines(textContent))} :
              /\ out = w.out
              /\ currentSpec = w.spec
              /\ segmentIndex = w.idx
              /\ currentSegmentText = w.text

(* Text was emitted, then a pass found only lines that are blank, [DONE]  *)
(* or no JSON.                                                            *)
C36_Witness ==
    /\ reader.skip.now
    /\ status = "open"
    /\ currentSegmentText # <<>>
    /\ out # <<>>
    /\ \E i \in 1..Len(split(textContent)) :
          /\ NotJSON(split(textContent)[i])
          /\ trim(split(textContent)[i]) # <<>>
    /\ Len(KeptLines(textContent)) < Len(split(textContent)) - 1

LineCount(body) ==
    Len(split(DecodeAll(body))) - (IF trim(Last(split(DecodeAll(body)))) = <<>> THEN 1 ELSE 0)

(* The chunks on the queue, whatever refers to their data. *)
Queued(q) == [i \in DOMAIN q |-> [q[i] EXCEPT !.shared = FALSE]]

(* The derived stream is closed, by close() or by a cancel of the         *)
(* consumer.                                                              *)
DerivedClosed == status \in {"closed", "cancelled", "released"}

====
